---- MODULE Spec2Model ----
(***************************************************************************)
(* Allocation ledger and resource locking of the SkillFlow CRM backend     *)
(* (services/ledger.py, routers/master_data.py, routers/resources.py,      *)
(* routers/ledger.py).  The MongoDB database is the record db, one field   *)
(* per collection, each collection a sequence of documents in insertion    *)
(* order.  Every service function and route handler is an operator from a  *)
(* database (and its arguments) to the database it leaves and the value    *)
(* it returns; the actions apply these operators.  Timestamps, audit       *)
(* entries, display names and money amounts are left out.                  *)
(***************************************************************************)
EXTENDS Integers, Sequences, FiniteSets, TLC

VARIABLES db, req

vars == <<db, req>>

---------------------------------------------------------------------------
(* Bounds *)

MaxTarget == 2
MaxBatches == 2
MaxBookings == 2
MaxDate == 3
MaxDistricts == 1

---------------------------------------------------------------------------
(* Python / MongoDB primitives *)

None == "None"
NoDate == 0
NoDoc == [missing |-> TRUE]

Truthy(x) == x \notin {None, ""}
Get(doc, f) == IF f \in DOMAIN doc THEN doc[f] ELSE None
IsDeleted(doc) == "is_deleted" \in DOMAIN doc /\ doc.is_deleted = TRUE
SetFields(doc, upd) == upd @@ doc

RECURSIVE SumSeq(_)
SumSeq(s) == IF s = <<>> THEN 0 ELSE Head(s) + SumSeq(Tail(s))

\* a maximum that lets its second argument through as it is
Max_unclamped(a, b) == b

Max(a, b) == IF a >= b THEN a ELSE b

\* the documents of a collection; a query is the set of documents it matches
Docs(coll) == {coll[i] : i \in DOMAIN coll}

find(coll, matching) == SelectSeq(coll, LAMBDA doc : doc \in matching)

find_one(coll, matching) ==
    LET m == find(coll, matching) IN IF m = <<>> THEN NoDoc ELSE Head(m)

insert_one(coll, doc) == Append(coll, doc)

update_one(coll, matching, upd) ==
    LET idx == {i \in 1..Len(coll) : coll[i] \in matching} IN
    IF idx = {} THEN coll
    ELSE LET k == CHOOSE i \in idx : \A j \in idx : i <= j
         IN  [coll EXCEPT ![k] = SetFields(@, upd)]

update_many(coll, matching, upd) ==
    [i \in 1..Len(coll) |-> IF coll[i] \in matching THEN SetFields(coll[i], upd) ELSE coll[i]]

\* "$lte" / "$gte" on a date field: a document whose field is null never matches
Lte_strict(field, x) == field # NoDate /\ field < x

Lte(field, x) == field # NoDate /\ field <= x
Gte(field, x) == field # NoDate /\ field >= x

---------------------------------------------------------------------------
(* Identifiers *)

JobRoles == {"jr_1", "jr_2"}
MasterWoIds == {"mwo_1", "mwo_2"}
TrainerIds == {"tr_1"}
ManagerIds == {"cm_1"}
InfraIds == {"infra_1"}
ResourceTypes == {"trainer", "manager", "infrastructure"}
DistrictNames == {"Pune", "pune"}
Suffixes == {None, "B"}

\* sdc_id = f"sdc_{district_key}{suffix}".lower(), district_key = name.upper().replace(" ", "_")
SdcIdOf(district_name, sdc_suffix) ==
    LET district_key == CASE district_name \in {"Pune", "pune"} -> "PUNE"
        lowered == CASE district_key = "PUNE" -> "pune"
    IN  IF Truthy(sdc_suffix)
        THEN "sdc_" \o lowered \o (CASE sdc_suffix = "B" -> "b")
        ELSE "sdc_" \o lowered

SdcIds == {SdcIdOf(d, s) : d \in DistrictNames, s \in Suffixes}

\* str.lower() on a district name
Lower(district_name) == CASE district_name \in {"Pune", "pune"} -> "pune"

\* f"wo_{uuid4().hex[:8]}", f"book_{...}", f"ledger_{...}": a fresh id per insert
NewWorkOrderId(d) == "wo_" \o ToString(Len(d.work_orders) + 1)
NewBookingId(d) == "book_" \o ToString(Len(d.resource_bookings) + 1)
NewLedgerId(d) == "ledger_" \o ToString(Len(d.target_ledger) + 1)

collection_map ==
    [trainer        |-> <<"trainers", "trainer_id">>,
     manager        |-> <<"center_managers", "manager_id">>,
     infrastructure |-> <<"sdc_infrastructure", "infra_id">>]

---------------------------------------------------------------------------
(* TARGET LEDGER (services/ledger.py) *)

get_target_ledger(d, master_wo_id) ==
    LET master_wo == find_one(d.master_work_orders,
                        {m \in Docs(d.master_work_orders) : m.master_wo_id = master_wo_id /\ ~IsDeleted(m)})
        work_orders == find(d.work_orders,
                        {wo \in Docs(d.work_orders) : wo.master_wo_id = master_wo_id /\ ~IsDeleted(wo)})
        entry(jr) ==
            LET allocated == SumSeq([i \in 1..Len(work_orders) |->
                                 IF work_orders[i].job_role_id = jr.job_role_id
                                 THEN work_orders[i].num_students ELSE 0])
            IN  [job_role_id        |-> jr.job_role_id,
                 total_target       |-> jr.target,
                 allocated          |-> allocated,
                 remaining          |-> Max(0, jr.target - allocated),
                 is_fully_allocated |-> allocated >= jr.target]
        job_roles == [i \in 1..Len(master_wo.job_roles) |-> entry(master_wo.job_roles[i])]
    IN  IF master_wo = NoDoc THEN NoDoc
        ELSE [master_wo_id          |-> master_wo_id,
              total_training_target |-> master_wo.total_training_target,
              total_allocated       |-> SumSeq([i \in 1..Len(job_roles) |-> job_roles[i].allocated]),
              total_remaining       |-> SumSeq([i \in 1..Len(job_roles) |-> job_roles[i].remaining]),
              job_roles             |-> job_roles,
              is_fully_allocated    |-> \A i \in 1..Len(job_roles) : job_roles[i].is_fully_allocated]

\* a check that lets a request through that exceeds the remaining quota by one
over_allocation_off_by_one(requested_students, remaining) ==
    requested_students > remaining + 1

\* a check that also rejects the request that uses up the remaining quota exactly
over_allocation_inclusive(requested_students, remaining) ==
    requested_students >= remaining

\* the comparison that rejects a request
over_allocation(requested_students, remaining) == requested_students > remaining

validate_allocation(d, master_wo_id, job_role_id, requested_students, exclude_wo_id) ==
    LET ledger == get_target_ledger(d, master_wo_id)
        jr_data == find_one(ledger.job_roles, {jr \in Docs(ledger.job_roles) : jr.job_role_id = job_role_id})
        wo == find_one(d.work_orders,
                  {w \in Docs(d.work_orders) : w.work_order_id = exclude_wo_id /\ w.job_role_id = job_role_id})
        current_allocation ==
            IF Truthy(exclude_wo_id) /\ wo # NoDoc
            THEN jr_data.allocated - wo.num_students
            ELSE jr_data.allocated
        remaining == jr_data.total_target - current_allocation
    IN  IF ledger = NoDoc
        THEN [is_valid |-> FALSE, error |-> "Master Work Order not found", remaining |-> 0]
        ELSE IF jr_data = NoDoc
        THEN [is_valid |-> FALSE, error |-> "Job Role not found in this Work Order", remaining |-> 0]
        ELSE IF over_allocation(requested_students, remaining)
        THEN [is_valid            |-> FALSE,
              error               |-> "Over-allocation",
              remaining           |-> remaining,
              requested           |-> requested_students,
              total_target        |-> jr_data.total_target,
              currently_allocated |-> current_allocation]
        ELSE [is_valid        |-> TRUE,
              remaining       |-> remaining,
              remaining_after |-> remaining - requested_students,
              requested       |-> requested_students]

record_allocation(d, master_wo_id, job_role_id, sdc_id, work_order_id, num_students) ==
    [d EXCEPT !.target_ledger = insert_one(@,
        [ledger_id          |-> NewLedgerId(d),
         master_wo_id       |-> master_wo_id,
         job_role_id        |-> job_role_id,
         sdc_id             |-> sdc_id,
         work_order_id      |-> work_order_id,
         allocated_students |-> num_students,
         status             |-> "active",
         is_deleted         |-> FALSE])]

---------------------------------------------------------------------------
(* RESOURCE LOCKING (services/ledger.py) *)

already_assigned_never(current_status, current_assignment) ==
    FALSE

\* the test that a resource is held
already_assigned(current_status, current_assignment) ==
    current_status = "assigned" /\ Truthy(current_assignment)

\* a test that takes any center that is given for the holder
same_center_any(resource, exclude_sdc_id) ==
    Truthy(exclude_sdc_id)

\* the test that the center to exclude is the holder
same_center(resource, exclude_sdc_id) ==
    Truthy(exclude_sdc_id) /\ Get(resource, "assigned_sdc_id") = exclude_sdc_id

check_resource_availability(d, resource_type, resource_id, start_date, end_date, exclude_sdc_id) ==
    LET collection_name == collection_map[resource_type][1]
        id_field == collection_map[resource_type][2]
        resource == find_one(d[collection_name], {r \in Docs(d[collection_name]) : r[id_field] = resource_id})
        current_status == IF "status" \in DOMAIN resource THEN resource.status ELSE "available"
        current_assignment ==
            IF Truthy(Get(resource, "assigned_sdc_id"))
            THEN Get(resource, "assigned_sdc_id")
            ELSE Get(resource, "assigned_work_order_id")
        bookings == find(d.resource_bookings,
            {b \in Docs(d.resource_bookings) :
                /\ b.resource_type = resource_type
                /\ b.resource_id = resource_id
                /\ b.status = "active"
                /\ \/ Lte(b.start_date, start_date) /\ Gte(b.end_date, start_date)
                   \/ Lte(b.start_date, end_date) /\ Gte(b.end_date, end_date)
                   \/ Gte(b.start_date, start_date) /\ Lte(b.end_date, end_date)})
    IN  IF resource_type \notin DOMAIN collection_map
        THEN [is_available |-> FALSE, error |-> "Unknown resource type"]
        ELSE IF resource = NoDoc
        THEN [is_available |-> FALSE, error |-> "not found"]
        ELSE IF already_assigned(current_status, current_assignment)
        THEN IF same_center(resource, exclude_sdc_id)
             THEN [is_available |-> TRUE, message |-> "Resource already assigned to this SDC"]
             ELSE [is_available |-> FALSE,
                   error        |-> "is already assigned",
                   conflict     |-> [sdc_id        |-> Get(resource, "assigned_sdc_id"),
                                     work_order_id |-> Get(resource, "assigned_work_order_id")],
                   resource     |-> [id |-> resource_id, status |-> current_status]]
        ELSE IF start_date # NoDate /\ end_date # NoDate /\ bookings # <<>>
        THEN [is_available |-> FALSE,
              error        |-> "has conflicting bookings during this period",
              conflicts    |-> bookings]
        ELSE [is_available |-> TRUE,
              resource     |-> [id |-> resource_id, status |-> current_status]]

\* the two writes of lock_resource, each one awaited database call
lock_update(d, resource_type, resource_id, sdc_id, work_order_id) ==
    LET collection_name == collection_map[resource_type][1]
        id_field == collection_map[resource_type][2]
        update_data ==
            IF resource_type \in {"trainer", "infrastructure"}
            THEN [status |-> "assigned", assigned_sdc_id |-> sdc_id,
                  assigned_work_order_id |-> work_order_id]
            ELSE [status |-> "assigned", assigned_sdc_id |-> sdc_id]
    IN  [d EXCEPT ![collection_name] =
            update_one(@, {r \in Docs(@) : r[id_field] = resource_id}, update_data)]

lock_booking(d, resource_type, resource_id, sdc_id, work_order_id, start_date, end_date) ==
    [d EXCEPT !.resource_bookings = insert_one(@,
        [booking_id    |-> NewBookingId(d),
         resource_type |-> resource_type,
         resource_id   |-> resource_id,
         sdc_id        |-> sdc_id,
         work_order_id |-> work_order_id,
         start_date    |-> start_date,
         end_date      |-> end_date,
         status        |-> "active"])]

\* a lock that, refused, still enters its booking in the log
lock_resource_queued(d, resource_type, resource_id, sdc_id, work_order_id, start_date, end_date) ==
    LET availability == check_resource_availability(d, resource_type, resource_id,
                                                    start_date, end_date, None)
        d1 == lock_update(d, resource_type, resource_id, sdc_id, work_order_id)
        d2 == lock_booking(d1, resource_type, resource_id, sdc_id, work_order_id,
                           start_date, end_date)
    IN  IF ~availability.is_available
        THEN [db  |-> IF "conflict" \in DOMAIN availability
                      THEN lock_booking(d, resource_type, resource_id, sdc_id, work_order_id,
                                        start_date, end_date)
                      ELSE d,
              ret |-> [success |-> FALSE] @@ availability]
        ELSE [db  |-> d2,
              ret |-> [success       |-> TRUE,
                       booking_id    |-> NewBookingId(d1),
                       resource_type |-> resource_type,
                       resource_id   |-> resource_id,
                       sdc_id        |-> sdc_id]]

lock_resource(d, resource_type, resource_id, sdc_id, work_order_id, start_date, end_date) ==
    LET availability == check_resource_availability(d, resource_type, resource_id,
                                                    start_date, end_date, None)
        d1 == lock_update(d, resource_type, resource_id, sdc_id, work_order_id)
        d2 == lock_booking(d1, resource_type, resource_id, sdc_id, work_order_id,
                           start_date, end_date)
    IN  IF ~availability.is_available
        THEN [db |-> d, ret |-> [success |-> FALSE] @@ availability]
        ELSE [db  |-> d2,
              ret |-> [success       |-> TRUE,
                       booking_id    |-> NewBookingId(d1),
                       resource_type |-> resource_type,
                       resource_id   |-> resource_id,
                       sdc_id        |-> sdc_id]]

release_update(d, resource_type, resource_id) ==
    LET collection_name == collection_map[resource_type][1]
        id_field == collection_map[resource_type][2]
    IN  [d EXCEPT ![collection_name] =
            update_one(@, {r \in Docs(@) : r[id_field] = resource_id},
                       [status |-> "available", assigned_sdc_id |-> None,
                        assigned_work_order_id |-> None])]

release_bookings(d, resource_id) ==
    [d EXCEPT !.resource_bookings =
        update_many(@, {b \in Docs(@) : b.resource_id = resource_id /\ b.status = "active"},
                    [status |-> "completed"])]

release_resource_strict(d, resource_type, resource_id) ==
    IF resource_type \notin DOMAIN collection_map
    THEN [db |-> d, ret |-> [success |-> FALSE, error |-> "Unknown resource type"]]
    ELSE IF {b \in Docs(d.resource_bookings) : b.resource_id = resource_id /\ b.status = "active"} = {}
    THEN [db |-> d, ret |-> [success |-> FALSE, error |-> "not locked"]]
    ELSE [db  |-> release_bookings(release_update(d, resource_type, resource_id), resource_id),
          ret |-> [success |-> TRUE, message |-> "released successfully"]]

\* a release that does not look at the kind before it completes the bookings
release_resource_any_kind(d, resource_type, resource_id) ==
    [db  |-> release_bookings(d, resource_id),
     ret |-> [success |-> TRUE, message |-> "released successfully"]]

release_resource(d, resource_type, resource_id) ==
    IF resource_type \notin DOMAIN collection_map
    THEN [db |-> d, ret |-> [success |-> FALSE, error |-> "Unknown resource type"]]
    ELSE [db  |-> release_bookings(release_update(d, resource_type, resource_id), resource_id),
          ret |-> [success |-> TRUE, message |-> "released successfully"]]

---------------------------------------------------------------------------
(* OPEN CENTER and CLOSE CONTRACT (routers/master_data.py) *)

TRAINING_STAGES ==
    <<"mobilization", "dress_distribution", "study_material", "classroom_training",
      "assessment", "ojt", "placement">>

create_training_roadmap(d, work_order_id, sdc_id, num_students) ==
    [d EXCEPT !.training_roadmaps = @ \o
        [i \in 1..Len(TRAINING_STAGES) |->
            [work_order_id   |-> work_order_id,
             sdc_id          |-> sdc_id,
             stage_id        |-> TRAINING_STAGES[i],
             target_count    |-> num_students,
             completed_count |-> 0]]]

\* a handler that opens the center without asking whether its resources are free
open_checks_none(d, sdc_data) ==
    [status_code |-> 200]

\* the three availability checks, in the order infrastructure, manager, trainer;
\* the first resource that is not available is the 409 response
open_checks(d, sdc_data) ==
    LET infra_check == check_resource_availability(d, "infrastructure", sdc_data.infra_id,
                                                   NoDate, NoDate, None)
        manager_check == check_resource_availability(d, "manager", sdc_data.manager_id,
                                                     NoDate, NoDate, None)
        trainer_check == check_resource_availability(d, "trainer", sdc_data.trainer_id,
                                                     NoDate, NoDate, None)
        conflict(resource_type, check) ==
            [status_code   |-> 409,
             error         |-> "Resource conflict",
             resource_type |-> resource_type,
             message       |-> check.error,
             conflict      |-> IF "conflict" \in DOMAIN check THEN check.conflict ELSE NoDoc]
    IN  IF Truthy(sdc_data.infra_id) /\ ~infra_check.is_available
        THEN conflict("infrastructure", infra_check)
        ELSE IF Truthy(sdc_data.manager_id) /\ ~manager_check.is_available
        THEN conflict("manager", manager_check)
        ELSE IF Truthy(sdc_data.trainer_id) /\ ~trainer_check.is_available
        THEN conflict("trainer", trainer_check)
        ELSE [status_code |-> 200]

\* find the center by its derived id
open_sdc_find(d, sdc_data) ==
    find_one(d.sdcs, {c \in Docs(d.sdcs) :
                         c.sdc_id = SdcIdOf(sdc_data.district_name, sdc_data.sdc_suffix)})

\* update the center if the lookup found it, insert it otherwise
open_sdc_write(d, master_wo_id, sdc_data, existing_sdc) ==
    LET sdc_id == SdcIdOf(sdc_data.district_name, sdc_data.sdc_suffix)
    IN  IF existing_sdc # NoDoc
        THEN [d EXCEPT !.sdcs = update_one(@, {c \in Docs(@) : c.sdc_id = sdc_id},
                  [master_wo_id    |-> master_wo_id,
                   target_students |-> sdc_data.target_students])]
        ELSE [d EXCEPT !.sdcs = insert_one(@,
                  [sdc_id          |-> sdc_id,
                   master_wo_id    |-> master_wo_id,
                   target_students |-> sdc_data.target_students])]

open_sdc(d, master_wo_id, sdc_data) ==
    open_sdc_write(d, master_wo_id, sdc_data, open_sdc_find(d, sdc_data))

\* one lock_resource call of the handler; its return value is not looked at
open_lock(d, master_wo_id, sdc_data, resource_type, resource_id) ==
    IF Truthy(resource_id)
    THEN lock_resource(d, resource_type, resource_id,
                       SdcIdOf(sdc_data.district_name, sdc_data.sdc_suffix),
                       master_wo_id, NoDate, NoDate).db
    ELSE d

\* the insert of the batch
open_work_order(d, master_wo_id, sdc_data) ==
    [d EXCEPT !.work_orders = insert_one(@,
        [work_order_id |-> NewWorkOrderId(d),
         master_wo_id  |-> master_wo_id,
         sdc_id        |-> SdcIdOf(sdc_data.district_name, sdc_data.sdc_suffix),
         job_role_id   |-> sdc_data.job_role_id,
         num_students  |-> sdc_data.target_students,
         status        |-> "active"])]

\* the batch and its roadmap
open_batch(d, master_wo_id, sdc_data) ==
    create_training_roadmap(open_work_order(d, master_wo_id, sdc_data),
                            NewWorkOrderId(d),
                            SdcIdOf(sdc_data.district_name, sdc_data.sdc_suffix),
                            sdc_data.target_students)

\* a handler that records the allocation under the id of a batch that is not
\* inserted
open_record_unplaced(d, master_wo_id, sdc_data, work_order_id) ==
    record_allocation(d, master_wo_id, sdc_data.job_role_id,
                      SdcIdOf(sdc_data.district_name, sdc_data.sdc_suffix),
                      NewWorkOrderId(d), sdc_data.target_students)

\* record_allocation for the batch the handler inserted under work_order_id
open_record(d, master_wo_id, sdc_data, work_order_id) ==
    record_allocation(d, master_wo_id, sdc_data.job_role_id,
                      SdcIdOf(sdc_data.district_name, sdc_data.sdc_suffix),
                      work_order_id, sdc_data.target_students)

\* the center is entered in the first district of the contract that has its
\* name; master_wo is the contract as the handler read it when it started
open_districts(d, master_wo, sdc_data) ==
    LET sdc_districts == master_wo.sdc_districts
        named == {i \in 1..Len(sdc_districts) :
                     Lower(sdc_districts[i].district_name) = Lower(sdc_data.district_name)}
        first == CHOOSE i \in named : \A j \in named : i <= j
        entered == IF named = {} THEN sdc_districts
                   ELSE [sdc_districts EXCEPT ![first].sdcs_created =
                            Append(@, SdcIdOf(sdc_data.district_name, sdc_data.sdc_suffix))]
    IN  [d EXCEPT !.master_work_orders =
            update_one(@, {m \in Docs(@) : m.master_wo_id = master_wo.master_wo_id},
                       [sdc_districts |-> entered])]

create_sdc_from_master(d, master_wo_id, sdc_data) ==
    LET master_wo == find_one(d.master_work_orders, {m \in Docs(d.master_work_orders) : m.master_wo_id = master_wo_id})
        allocation_result == validate_allocation(d, master_wo_id, sdc_data.job_role_id,
                                                 sdc_data.target_students, None)
        checks == open_checks(d, sdc_data)
        d1 == open_sdc(d, master_wo_id, sdc_data)
        d2 == open_lock(d1, master_wo_id, sdc_data, "infrastructure", sdc_data.infra_id)
        d3 == open_lock(d2, master_wo_id, sdc_data, "manager", sdc_data.manager_id)
        d4 == open_lock(d3, master_wo_id, sdc_data, "trainer", sdc_data.trainer_id)
        d5 == open_batch(d4, master_wo_id, sdc_data)
        d6 == open_record(d5, master_wo_id, sdc_data, NewWorkOrderId(d4))
        d7 == open_districts(d6, master_wo, sdc_data)
    IN  IF master_wo = NoDoc
        THEN [db |-> d, ret |-> [status_code |-> 404]]
        ELSE IF ~allocation_result.is_valid
        THEN [db  |-> d,
              ret |-> [status_code |-> 400,
                       error       |-> "Over-allocation prevented",
                       message     |-> allocation_result.error,
                       remaining   |-> allocation_result.remaining,
                       requested   |-> sdc_data.target_students]]
        ELSE IF checks.status_code # 200
        THEN [db |-> d, ret |-> checks]
        ELSE [db  |-> d7,
              ret |-> [status_code   |-> 200,
                       sdc_id        |-> SdcIdOf(sdc_data.district_name, sdc_data.sdc_suffix),
                       work_order_id |-> NewWorkOrderId(d4),
                       allocation    |-> [allocated       |-> sdc_data.target_students,
                                          remaining_after |-> allocation_result.remaining_after],
                       resources_locked |->
                           Cardinality({f \in {"infra_id", "manager_id", "trainer_id"} :
                                           Truthy(sdc_data[f])})]]

\* a handler that takes the new total as the target of the first job role too
update_master_work_order_targets(d, master_wo_id, mwo_update) ==
    LET master_wo == find_one(d.master_work_orders, {m \in Docs(d.master_work_orders) : m.master_wo_id = master_wo_id})
    IN  IF master_wo = NoDoc
        THEN [db |-> d, ret |-> [status_code |-> 404]]
        ELSE [db  |-> [d EXCEPT !.master_work_orders =
                          update_one(@, {m \in Docs(@) : m.master_wo_id = master_wo_id},
                              IF "total_training_target" \notin DOMAIN mwo_update
                              THEN mwo_update
                              ELSE [total_training_target |-> mwo_update.total_training_target,
                                    job_roles |-> [master_wo.job_roles EXCEPT ![1].target =
                                                      mwo_update.total_training_target]])],
              ret |-> [status_code |-> 200]]

\* the fields of the update that are not None are set; an update is the
\* record of the fields that are given
update_master_work_order(d, master_wo_id, mwo_update) ==
    LET master_wo == find_one(d.master_work_orders, {m \in Docs(d.master_work_orders) : m.master_wo_id = master_wo_id})
        update_data == [f \in DOMAIN mwo_update \cap {"total_training_target", "status"}
                           |-> mwo_update[f]]
    IN  IF master_wo = NoDoc
        THEN [db |-> d, ret |-> [status_code |-> 404]]
        ELSE [db  |-> [d EXCEPT !.master_work_orders =
                          update_one(@, {m \in Docs(@) : m.master_wo_id = master_wo_id},
                                     update_data)],
              ret |-> [status_code |-> 200]]

add_sdc_district(d, master_wo_id, district) ==
    LET master_wo == find_one(d.master_work_orders, {m \in Docs(d.master_work_orders) : m.master_wo_id = master_wo_id})
        sdc_districts == Append(master_wo.sdc_districts,
                                [district_name |-> district.district_name,
                                 sdc_count     |-> district.sdc_count,
                                 sdcs_created  |-> << >>])
    IN  IF master_wo = NoDoc
        THEN [db |-> d, ret |-> [status_code |-> 404]]
        ELSE [db  |-> [d EXCEPT !.master_work_orders =
                          update_one(@, {m \in Docs(@) : m.master_wo_id = master_wo_id},
                              [sdc_districts |-> sdc_districts,
                               num_sdcs      |-> SumSeq([i \in 1..Len(sdc_districts) |->
                                                            sdc_districts[i].sdc_count])])],
              ret |-> [status_code |-> 200]]

\* the writes of complete_master_work_order
complete_writes(d, master_wo_id) ==
    LET sdcs == find(d.sdcs, {c \in Docs(d.sdcs) : c.master_wo_id = master_wo_id})
        of_sdcs(coll) == {r \in Docs(coll) :
                             /\ \E i \in 1..Len(sdcs) : Get(r, "assigned_sdc_id") = sdcs[i].sdc_id
                             /\ r.status = "assigned"}
        d1 == [d EXCEPT
                 !.trainers = update_many(@, of_sdcs(@),
                     [status |-> "available", assigned_sdc_id |-> None,
                      assigned_work_order_id |-> None]),
                 !.center_managers = update_many(@, of_sdcs(@),
                     [status |-> "available", assigned_sdc_id |-> None])]
        d2 == [d1 EXCEPT
                 !.sdc_infrastructure = update_many(@,
                     {r \in Docs(@) : Get(r, "assigned_work_order_id") = master_wo_id
                                /\ r.status = "in_use"},
                     [status |-> "available", assigned_work_order_id |-> None])]
        d3 == [d2 EXCEPT
                 !.work_orders = update_many(@, {wo \in Docs(@) : wo.master_wo_id = master_wo_id},
                                             [status |-> "completed"])]
        d4 == [d3 EXCEPT
                 !.master_work_orders = update_one(@, {m \in Docs(@) : m.master_wo_id = master_wo_id},
                                                   [status |-> "completed"])]
    IN  d4

\* a handler that runs its writes again on a contract that is already completed
complete_master_work_order_again(d, master_wo_id) ==
    LET master_wo == find_one(d.master_work_orders, {m \in Docs(d.master_work_orders) : m.master_wo_id = master_wo_id})
    IN  IF master_wo = NoDoc
        THEN [db |-> d, ret |-> [status_code |-> 404]]
        ELSE [db  |-> complete_writes(d, master_wo_id),
              ret |-> [status_code |-> 200,
                       message     |-> "Work Order completed and all resources released"]]

complete_master_work_order(d, master_wo_id) ==
    LET master_wo == find_one(d.master_work_orders, {m \in Docs(d.master_work_orders) : m.master_wo_id = master_wo_id})
    IN  IF master_wo = NoDoc
        THEN [db |-> d, ret |-> [status_code |-> 404]]
        ELSE IF master_wo.status = "completed"
        THEN [db |-> d, ret |-> [status_code |-> 200, message |-> "Work Order is already completed"]]
        ELSE [db  |-> complete_writes(d, master_wo_id),
              ret |-> [status_code |-> 200,
                       message     |-> "Work Order completed and all resources released"]]

---------------------------------------------------------------------------
(* STAGE PROGRESS (routers/sdcs.py, server.py) and BURN-DOWN               *)
(* (services/ledger.py)                                                    *)

PROCESS_STAGES == <<"mobilization", "training", "ojt", "assessment", "placement">>

\* the part of get_sdc_process_status that creates the process document of a
\* center, every stage with completed = 0
get_sdc_process_status(d, sdc_id) ==
    LET sdc == find_one(d.sdcs, {c \in Docs(d.sdcs) : c.sdc_id = sdc_id /\ ~IsDeleted(c)})
        process_data == find_one(d.sdc_processes, {pr \in Docs(d.sdc_processes) : pr.sdc_id = sdc_id})
    IN  IF sdc = NoDoc \/ process_data # NoDoc
        THEN d
        ELSE [d EXCEPT !.sdc_processes = insert_one(@,
                 [sdc_id |-> sdc_id,
                  stages |-> [stage_id \in {PROCESS_STAGES[i] : i \in 1..Len(PROCESS_STAGES)} |-> 0]])]

\* update_process_stage called with a completed count and no other field
update_process_stage(d, sdc_id, stage_id, completed) ==
    LET sdc == find_one(d.sdcs, {c \in Docs(d.sdcs) : c.sdc_id = sdc_id})
        target_students == IF "target_students" \in DOMAIN sdc THEN sdc.target_students ELSE 0
        d1 == get_sdc_process_status(d, sdc_id)
        process_data == find_one(d1.sdc_processes, {pr \in Docs(d1.sdc_processes) : pr.sdc_id = sdc_id})
        stage_idx == CHOOSE i \in 1..Len(PROCESS_STAGES) : PROCESS_STAGES[i] = stage_id
        max_allowed == IF stage_idx = 1 THEN target_students
                       ELSE process_data.stages[PROCESS_STAGES[stage_idx - 1]]
    IN  IF stage_id \notin {PROCESS_STAGES[i] : i \in 1..Len(PROCESS_STAGES)}
        THEN [db |-> d, ret |-> [status_code |-> 400, detail |-> "Invalid stage_id"]]
        ELSE IF sdc = NoDoc \/ process_data = NoDoc
        THEN [db |-> d, ret |-> [status_code |-> 404]]
        ELSE IF completed > max_allowed
        THEN [db |-> d1, ret |-> [status_code |-> 400, detail |-> "cannot exceed"]]
        ELSE [db  |-> [d1 EXCEPT !.sdc_processes =
                          update_one(@, {pr \in Docs(@) : pr.sdc_id = sdc_id},
                                     [stages |-> [process_data.stages EXCEPT ![stage_id] = completed]])],
              ret |-> [status_code |-> 200]]

\* update_roadmap_stage called with a completed_count; the roadmap stage of a
\* batch is named by the batch and the stage
update_roadmap_stage(d, work_order_id, stage_id, completed_count) ==
    LET matching == {rm \in Docs(d.training_roadmaps) :
                        rm.work_order_id = work_order_id /\ rm.stage_id = stage_id}
    IN  IF find_one(d.training_roadmaps, matching) = NoDoc
        THEN [db |-> d, ret |-> [status_code |-> 404]]
        ELSE [db  |-> [d EXCEPT !.training_roadmaps =
                          update_one(@, matching, [completed_count |-> completed_count])],
              ret |-> [status_code |-> 200]]

\* total of one stage: the sum over the process documents of the centers of the
\* batches, raised to the largest completed_count of the roadmaps of that stage
stage_total(d, work_orders, process_stage, roadmap_stage) ==
    LET sdc_ids == {work_orders[i].sdc_id : i \in 1..Len(work_orders)}
        wo_ids == {work_orders[i].work_order_id : i \in 1..Len(work_orders)}
        processes == find(d.sdc_processes, {pr \in Docs(d.sdc_processes) : pr.sdc_id \in sdc_ids})
        total == SumSeq([i \in 1..Len(processes) |-> processes[i].stages[process_stage]])
        completed == {rm.completed_count :
                         rm \in {rm \in Docs(d.training_roadmaps) :
                                    rm.work_order_id \in wo_ids /\ rm.stage_id = roadmap_stage}}
    IN  CHOOSE x \in completed \cup {total} : \A y \in completed \cup {total} : y <= x

\* a query that also returns the soft-deleted batches of the contract
burndown_work_orders_all(d, mwo_id) ==
    find(d.work_orders, {wo \in Docs(d.work_orders) : wo.master_wo_id = mwo_id})

\* the batches of one contract that get_burndown_data counts
burndown_work_orders(d, mwo_id) ==
    find(d.work_orders, {wo \in Docs(d.work_orders) : wo.master_wo_id = mwo_id /\ ~IsDeleted(wo)})

\* buckets in which the mobilized students are counted again among those
\* awaiting training
burndown_pipeline_overlapping(total_target, total_allocated, total_mobilized, total_in_training, total_ojt, total_assessed, total_placed) ==
    [unallocated           |-> Max(0, total_target - total_allocated),
     allocated_not_started |-> Max(0, total_allocated - total_mobilized),
     mobilized             |-> total_mobilized,
     awaiting_training     |-> total_mobilized,
     in_training           |-> Max(0, total_in_training - total_ojt),
     in_ojt                |-> Max(0, total_ojt - total_assessed),
     awaiting_placement    |-> Max(0, total_assessed - total_placed),
     placed                |-> total_placed]

\* the pipeline of one contract: differences of adjacent totals, clamped at 0
burndown_pipeline(total_target, total_allocated, total_mobilized, total_in_training, total_ojt, total_assessed, total_placed) ==
    [unallocated           |-> Max(0, total_target - total_allocated),
     allocated_not_started |-> Max(0, total_allocated - total_mobilized),
     mobilized             |-> total_mobilized,
     awaiting_training     |-> Max(0, total_mobilized - total_in_training),
     in_training           |-> Max(0, total_in_training - total_ojt),
     in_ojt                |-> Max(0, total_ojt - total_assessed),
     awaiting_placement    |-> Max(0, total_assessed - total_placed),
     placed                |-> total_placed]

\* the entry of get_burndown_data for one contract
get_burndown_data(d, master_wo_id) ==
    LET mwo == find_one(d.master_work_orders,
                   {m \in Docs(d.master_work_orders) : m.master_wo_id = master_wo_id /\ ~IsDeleted(m)})
        work_orders == burndown_work_orders(d, master_wo_id)
        total_target == mwo.total_training_target
        total_allocated == SumSeq([i \in 1..Len(work_orders) |-> work_orders[i].num_students])
        total_mobilized == stage_total(d, work_orders, "mobilization", "mobilization")
        total_in_training == stage_total(d, work_orders, "training", "classroom_training")
        total_ojt == stage_total(d, work_orders, "ojt", "ojt")
        total_assessed == stage_total(d, work_orders, "assessment", "assessment")
        total_placed == stage_total(d, work_orders, "placement", "placement")
    IN  IF mwo = NoDoc THEN NoDoc
        ELSE [master_wo_id |-> master_wo_id,
              total_target |-> total_target,
              pipeline |-> burndown_pipeline(total_target, total_allocated, total_mobilized,
                                             total_in_training, total_ojt, total_assessed,
                                             total_placed),
              summary |->
                  [total_allocated |-> total_allocated,
                   total_mobilized |-> total_mobilized,
                   total_placed    |-> total_placed],
              status |-> mwo.status]

---------------------------------------------------------------------------
(* SOFT DELETE and RESTORE (services/soft_delete.py, routers/sdcs.py,      *)
(* routers/users.py)                                                       *)

\* the first document the query matches is flagged, deleted already or not
soft_delete_document(d, collection_name, matching) ==
    IF find_one(d[collection_name], matching) = NoDoc
    THEN [db |-> d, ret |-> FALSE]
    ELSE [db  |-> [d EXCEPT ![collection_name] = update_one(@, matching, [is_deleted |-> TRUE])],
          ret |-> TRUE]

\* matching is the query of the caller; the service adds "is_deleted": True
restore_document(d, collection_name, matching) ==
    LET deleted == {doc \in matching : IsDeleted(doc)}
    IN  IF find_one(d[collection_name], deleted) = NoDoc
        THEN [db |-> d, ret |-> FALSE]
        ELSE [db  |-> [d EXCEPT ![collection_name] = update_one(@, deleted, [is_deleted |-> FALSE])],
              ret |-> TRUE]

delete_sdc(d, sdc_id) ==
    LET sdc == find_one(d.sdcs, {c \in Docs(d.sdcs) : c.sdc_id = sdc_id /\ ~IsDeleted(c)})
        deleted == soft_delete_document(d, "sdcs", {c \in Docs(d.sdcs) : c.sdc_id = sdc_id})
    IN  IF sdc = NoDoc
        THEN [db |-> d, ret |-> [status_code |-> 404]]
        ELSE IF ~deleted.ret
        THEN [db |-> deleted.db, ret |-> [status_code |-> 500]]
        ELSE [db  |-> [deleted.db EXCEPT !.work_orders =
                          update_many(@, {wo \in Docs(@) : wo.sdc_id = sdc_id},
                                      [is_deleted |-> TRUE])],
              ret |-> [status_code |-> 200, sdc_id |-> sdc_id]]

id_field_map ==
    [master_work_orders |-> "master_wo_id",
     trainers           |-> "trainer_id",
     center_managers    |-> "manager_id",
     sdc_infrastructure |-> "infra_id",
     sdcs               |-> "sdc_id",
     work_orders        |-> "work_order_id"]

restore_deleted_item(d, entity_type, entity_id) ==
    LET id_field == id_field_map[entity_type]
        restored == restore_document(d, entity_type,
                        {doc \in Docs(d[entity_type]) : doc[id_field] = entity_id})
    IN  IF entity_type \notin DOMAIN id_field_map
        THEN [db |-> d, ret |-> [status_code |-> 400]]
        ELSE IF ~restored.ret
        THEN [db |-> restored.db, ret |-> [status_code |-> 404]]
        ELSE [db |-> restored.db, ret |-> [status_code |-> 200]]

---------------------------------------------------------------------------
(* READ ENDPOINTS (routers/ledger.py): each returns the database as its    *)
(* awaited calls leave it, and the response                                *)

Reverse(s) == [i \in 1..Len(s) |-> s[Len(s) + 1 - i]]

\* the bookings of a resource, the latest first
get_resource_booking_history(d, resource_type, resource_id) ==
    Reverse(find(d.resource_bookings,
                 {b \in Docs(d.resource_bookings) :
                     b.resource_type = resource_type /\ b.resource_id = resource_id}))

get_target_ledger_endpoint(d, master_wo_id) ==
    LET ledger == get_target_ledger(d, master_wo_id)
    IN  [db  |-> d,
         ret |-> IF ledger = NoDoc THEN [status_code |-> 404]
                 ELSE [status_code |-> 200, body |-> ledger]]

validate_allocation_endpoint(d, master_wo_id, job_role_id, requested_students, exclude_wo_id) ==
    LET result == validate_allocation(d, master_wo_id, job_role_id, requested_students,
                                      exclude_wo_id)
    IN  [db  |-> d,
         ret |-> [status_code |-> IF result.is_valid THEN 200 ELSE 400, body |-> result]]

check_resource_availability_endpoint(d, resource_type, resource_id, start_date, end_date, exclude_sdc_id) ==
    [db  |-> d,
     ret |-> [status_code |-> 200,
              body |-> check_resource_availability(d, resource_type, resource_id,
                                                   start_date, end_date, exclude_sdc_id)]]

get_resource_history_endpoint(d, resource_type, resource_id) ==
    [db  |-> d,
     ret |-> [status_code |-> 200,
              body |-> get_resource_booking_history(d, resource_type, resource_id)]]

\* a report that creates the process document of every center of the contract
\* that has none, as get_sdc_process_status does for one center
get_single_burndown_creating(d, master_wo_id) ==
    LET RECURSIVE created(_, _)
        created(dd, sdcs) ==
            IF sdcs = <<>> THEN dd
            ELSE created(get_sdc_process_status(dd, Head(sdcs).sdc_id), Tail(sdcs))
    IN  [db  |-> created(d, find(d.sdcs, {c \in Docs(d.sdcs) : c.master_wo_id = master_wo_id})),
         ret |-> [status_code |-> 200, body |-> get_burndown_data(d, master_wo_id)]]

get_single_burndown(d, master_wo_id) ==
    LET wo_data == get_burndown_data(d, master_wo_id)
    IN  [db  |-> d,
         ret |-> IF wo_data = NoDoc THEN [status_code |-> 404]
                 ELSE [status_code |-> 200, body |-> wo_data]]

---------------------------------------------------------------------------
(* PER-KIND ASSIGN / RELEASE ENDPOINTS (routers/resources.py) *)

assign_trainer(d, trainer_id, sdc_id, work_order_id) ==
    LET trainer == find_one(d.trainers, {r \in Docs(d.trainers) : r.trainer_id = trainer_id})
    IN  IF trainer = NoDoc THEN [db |-> d, ret |-> [status_code |-> 404]]
        ELSE IF Get(trainer, "status") # "available" THEN [db |-> d, ret |-> [status_code |-> 400]]
        ELSE [db  |-> [d EXCEPT !.trainers = update_one(@, {r \in Docs(@) : r.trainer_id = trainer_id},
                          [status |-> "assigned", assigned_sdc_id |-> sdc_id,
                           assigned_work_order_id |-> work_order_id])],
              ret |-> [status_code |-> 200]]

release_trainer(d, trainer_id) ==
    [db  |-> [d EXCEPT !.trainers = update_one(@, {r \in Docs(@) : r.trainer_id = trainer_id},
                  [status |-> "available", assigned_sdc_id |-> None,
                   assigned_work_order_id |-> None])],
     ret |-> [status_code |-> 200]]

assign_manager(d, manager_id, sdc_id) ==
    LET manager == find_one(d.center_managers, {r \in Docs(d.center_managers) : r.manager_id = manager_id})
    IN  IF manager = NoDoc THEN [db |-> d, ret |-> [status_code |-> 404]]
        ELSE IF Get(manager, "status") # "available" THEN [db |-> d, ret |-> [status_code |-> 400]]
        ELSE [db  |-> [d EXCEPT !.center_managers = update_one(@,
                          {r \in Docs(@) : r.manager_id = manager_id},
                          [status |-> "assigned", assigned_sdc_id |-> sdc_id])],
              ret |-> [status_code |-> 200]]

release_manager(d, manager_id) ==
    [db  |-> [d EXCEPT !.center_managers = update_one(@, {r \in Docs(@) : r.manager_id = manager_id},
                  [status |-> "available", assigned_sdc_id |-> None])],
     ret |-> [status_code |-> 200]]

assign_infrastructure(d, infra_id, work_order_id) ==
    LET infra == find_one(d.sdc_infrastructure, {r \in Docs(d.sdc_infrastructure) : r.infra_id = infra_id})
    IN  IF infra = NoDoc THEN [db |-> d, ret |-> [status_code |-> 404]]
        ELSE IF Get(infra, "status") # "available" THEN [db |-> d, ret |-> [status_code |-> 400]]
        ELSE [db  |-> [d EXCEPT !.sdc_infrastructure = update_one(@,
                          {r \in Docs(@) : r.infra_id = infra_id},
                          [status |-> "in_use", assigned_work_order_id |-> work_order_id])],
              ret |-> [status_code |-> 200]]

release_infrastructure(d, infra_id) ==
    [db  |-> [d EXCEPT !.sdc_infrastructure = update_one(@, {r \in Docs(@) : r.infra_id = infra_id},
                  [status |-> "available", assigned_work_order_id |-> None])],
     ret |-> [status_code |-> 200]]

---------------------------------------------------------------------------
(* Requests *)

ResourceIds == TrainerIds \cup ManagerIds \cup InfraIds
\* the lock endpoint is called without a date range, as the open-center workflow calls it
DateRanges == {<<NoDate, NoDate>>}
RequestedStudents == (-1)..(MaxTarget + 1)
WorkOrderRefs == {"mwo_1"}

SdcData ==
    [district_name   : DistrictNames,
     sdc_suffix      : Suffixes,
     job_role_id     : JobRoles,
     target_students : RequestedStudents,
     infra_id        : {None} \cup InfraIds,
     manager_id      : {None} \cup ManagerIds,
     trainer_id      : {None} \cup TrainerIds]

\* requests that vary the students asked for and name at most a trainer
AllocationRequests ==
    {sdc_data \in SdcData : sdc_data.infra_id = None /\ sdc_data.manager_id = None}

\* ids and kinds that name nothing in the database
UnknownMasterWoIds == {"mwo_9"}
UnknownJobRoles == {"jr_9"}
UnknownResourceTypes == {"vehicle"}
UnknownResourceIds == {"tr_9"}

NumResources(sdc_data) ==
    Cardinality({f \in {"infra_id", "manager_id", "trainer_id"} : Truthy(sdc_data[f])})

\* the coroutines that serve requests
Procs == {1, 2}

Idle == [pc |-> "idle"]

---------------------------------------------------------------------------
(* Initial state: two contracts created by create_master_work_order, one   *)
(* onboarded resource of each kind, nothing allocated, nothing locked      *)

master_wo(master_wo_id, job_roles) ==
    [master_wo_id          |-> master_wo_id,
     total_training_target |-> SumSeq([i \in 1..Len(job_roles) |-> job_roles[i].target]),
     job_roles             |-> job_roles,
     num_sdcs              |-> 0,
     sdc_districts         |-> << >>,
     status                |-> "active"]

InitDb(t1, t2) ==
    [master_work_orders |->
        << master_wo("mwo_1", << [job_role_id |-> "jr_1", target |-> t1],
                                 [job_role_id |-> "jr_2", target |-> t2] >>),
           master_wo("mwo_2", << [job_role_id |-> "jr_1", target |-> t2] >>) >>,
     sdcs               |-> << >>,
     work_orders        |-> << >>,
     training_roadmaps  |-> << >>,
     sdc_processes      |-> << >>,
     target_ledger      |-> << >>,
     trainers           |-> << [trainer_id |-> "tr_1", status |-> "available",
                                assigned_sdc_id |-> None, assigned_work_order_id |-> None] >>,
     center_managers    |-> << [manager_id |-> "cm_1", status |-> "available",
                                assigned_sdc_id |-> None] >>,
     sdc_infrastructure |-> << [infra_id |-> "infra_1", status |-> "available",
                                assigned_work_order_id |-> None] >>,
     resource_bookings  |-> << >>]

InitOpen ==
    /\ \E t1 \in 0..MaxTarget : db = InitDb(t1, 1)
    /\ req = [p \in Procs |-> Idle]

\* the state after one center was opened under each contract, without resources
plain_request(sdc_suffix) ==
    [district_name |-> "Pune", sdc_suffix |-> sdc_suffix, job_role_id |-> "jr_1",
     target_students |-> 1, infra_id |-> None, manager_id |-> None, trainer_id |-> None]

OpenedDb ==
    create_sdc_from_master(
        create_sdc_from_master(InitDb(MaxTarget, 1), "mwo_1", plain_request(None)).db,
        "mwo_2", plain_request("B")).db

Init ==
    /\ db = OpenedDb
    /\ req = [p \in Procs |-> Idle]

---------------------------------------------------------------------------
(* Actions: one request served from start to end *)

Serve(result) ==
    /\ db' = result.db
    /\ UNCHANGED req

LockResource ==
    \E resource_type \in ResourceTypes, resource_id \in ResourceIds, sdc_id \in SdcIds,
       work_order_id \in WorkOrderRefs, dates \in DateRanges :
        /\ Len(db.resource_bookings) < MaxBookings
        /\ Serve(lock_resource(db, resource_type, resource_id, sdc_id, work_order_id,
                               dates[1], dates[2]))

ReleaseResource ==
    \E resource_type \in ResourceTypes, resource_id \in ResourceIds :
        Serve(release_resource(db, resource_type, resource_id))

CreateSdcFromMaster(requests) ==
    \E master_wo_id \in MasterWoIds, sdc_data \in requests :
        /\ Len(db.work_orders) < MaxBatches
        /\ Len(db.resource_bookings) + NumResources(sdc_data) <= MaxBookings
        /\ Serve(create_sdc_from_master(db, master_wo_id, sdc_data))

CompleteMasterWorkOrder ==
    \E master_wo_id \in MasterWoIds :
        Serve(complete_master_work_order(db, master_wo_id))

AssignTrainer ==
    \E trainer_id \in TrainerIds, sdc_id \in SdcIds, work_order_id \in WorkOrderRefs :
        Serve(assign_trainer(db, trainer_id, sdc_id, work_order_id))

ReleaseTrainer ==
    \E trainer_id \in TrainerIds :
        Serve(release_trainer(db, trainer_id))

AssignManager ==
    \E manager_id \in ManagerIds, sdc_id \in SdcIds :
        Serve(assign_manager(db, manager_id, sdc_id))

ReleaseManager ==
    \E manager_id \in ManagerIds :
        Serve(release_manager(db, manager_id))

AssignInfrastructure ==
    \E infra_id \in InfraIds, work_order_id \in WorkOrderRefs :
        Serve(assign_infrastructure(db, infra_id, work_order_id))

ReleaseInfrastructure ==
    \E infra_id \in InfraIds :
        Serve(release_infrastructure(db, infra_id))

Next ==
    \/ LockResource
    \/ ReleaseResource
    \/ CompleteMasterWorkOrder
    \/ AssignTrainer
    \/ ReleaseTrainer
    \/ AssignManager
    \/ ReleaseManager
    \/ AssignInfrastructure
    \/ ReleaseInfrastructure

Spec == Init /\ [][Next]_vars

\* open-center requests only, served one after the other
NextOpen == CreateSdcFromMaster(AllocationRequests)

SpecOpen == InitOpen /\ [][NextOpen]_vars

\* the ledger's lock and release endpoints and the closing of a contract
NextLedger ==
    \/ LockResource
    \/ ReleaseResource
    \/ CompleteMasterWorkOrder

SpecLedger == Init /\ [][NextLedger]_vars

\* dates are ISO strings "YYYY-MM-DD", which the database orders as text and
\* so by day; a date is the number of its day
Dates == 1..MaxDate
DatedRanges == {dates \in Dates \X Dates : dates[1] <= dates[2]}

\* the lock endpoint called for a trainer, with or without a well-formed date
\* range, and for a manager over the whole period
LockResourceDated ==
    \E resource_type \in {"trainer", "manager"}, resource_id \in TrainerIds \cup ManagerIds,
       dates \in DatedRanges \cup DateRanges :
        /\ Len(db.resource_bookings) < MaxBookings
        /\ resource_type = "manager" => dates = <<1, MaxDate>>
        /\ Serve(lock_resource(db, resource_type, resource_id, "sdc_pune", "mwo_1",
                               dates[1], dates[2]))

\* dated locks, the ledger's release and the per-kind releases that leave
\* the bookings of the resource active
NextDates ==
    \/ LockResourceDated
    \/ ReleaseResource
    \/ ReleaseTrainer
    \/ ReleaseManager

SpecDates == Init /\ [][NextDates]_vars

\* stage counts reported for a center or a roadmap stage
StageCounts == 0..MaxTarget

UpdateProcessStage ==
    \E sdc_id \in SdcIds, i \in 1..Len(PROCESS_STAGES), completed \in StageCounts :
        Serve(update_process_stage(db, sdc_id, PROCESS_STAGES[i], completed))

\* the roadmap stages of the first batch that the burn-down reads besides the
\* process document
UpdateRoadmapStage ==
    \E stage_id \in {"mobilization", "classroom_training"}, completed_count \in StageCounts :
        Serve(update_roadmap_stage(db, "wo_1", stage_id, completed_count))

\* progress is reported for one center, opened for any number of students
NextBurndown ==
    \/ UpdateProcessStage
    \/ UpdateRoadmapStage

InitBurndown ==
    /\ \E target_students \in 0..MaxTarget :
           db = create_sdc_from_master(InitDb(MaxTarget, 1), "mwo_1",
                    [plain_request(None) EXCEPT !.target_students = target_students]).db
    /\ req = [p \in Procs |-> Idle]

SpecBurndown == InitBurndown /\ [][NextBurndown]_vars

\* open-center requests for one student of jr_1 that name any of the resources
ResourceRequests ==
    {sdc_data \in SdcData :
        /\ sdc_data.district_name = "Pune"
        /\ sdc_data.job_role_id = "jr_1"
        /\ sdc_data.target_students = 1}

\* open-center requests within and beyond the quota of jr_1, that name any of
\* the resources
ProbeRequests ==
    {sdc_data \in SdcData :
        /\ sdc_data.district_name = "Pune"
        /\ sdc_data.sdc_suffix = None
        /\ sdc_data.job_role_id = "jr_1"
        /\ sdc_data.target_students \in {1, MaxTarget + 1}}

\* the provisioning workflow: centers are opened with resources, contracts are closed
NextWorkflow ==
    \/ CreateSdcFromMaster(ResourceRequests)
    \/ CompleteMasterWorkOrder

InitWorkflow ==
    /\ db = InitDb(MaxTarget, 1)
    /\ req = [p \in Procs |-> Idle]

SpecWorkflow == InitWorkflow /\ [][NextWorkflow]_vars

\* open-center requests that name no resource
PlainRequests ==
    {sdc_data \in AllocationRequests :
        /\ sdc_data.trainer_id = None
        /\ sdc_data.district_name = "Pune"
        /\ sdc_data.target_students \in 1..MaxTarget}

\* updates of a contract: a new total, the status that reopens it, both or neither
MasterWorkOrderUpdates ==
    [total_training_target : {0}, status : {"active"}]
        \cup [total_training_target : {0}]
        \cup [status : {"active"}]
        \cup {[f \in {} |-> None]}

SdcDistrictAllocations == [district_name : {"pune"}, sdc_count : {1}]

UpdateMasterWorkOrder ==
    \E master_wo_id \in MasterWoIds, mwo_update \in MasterWorkOrderUpdates :
        Serve(update_master_work_order(db, master_wo_id, mwo_update))

AddSdcDistrict ==
    \E master_wo_id \in MasterWoIds, district \in SdcDistrictAllocations :
        /\ \A m \in Docs(db.master_work_orders) :
               m.master_wo_id = master_wo_id => Len(m.sdc_districts) < MaxDistricts
        /\ Serve(add_sdc_district(db, master_wo_id, district))

\* head office maintains the contracts while centers are opened under them
NextContract ==
    \/ UpdateMasterWorkOrder
    \/ AddSdcDistrict
    \/ CreateSdcFromMaster({plain_request(None)})
    \/ CompleteMasterWorkOrder

SpecContract == InitWorkflow /\ [][NextContract]_vars

\* what the recycle bin is asked to restore: a center, a batch, or something
\* of a kind it does not keep
EntityTypes == {"sdcs", "work_orders", "users"}

DeleteSdc ==
    \E sdc_id \in SdcIds :
        Serve(delete_sdc(db, sdc_id))

RestoreDeletedItem ==
    \E entity_type \in EntityTypes,
       entity_id \in SdcIds \cup {wo.work_order_id : wo \in Docs(db.work_orders)} :
        Serve(restore_deleted_item(db, entity_type, entity_id))

\* centers are opened, soft-deleted with their batches, and restored
NextRecycle ==
    \/ CreateSdcFromMaster(PlainRequests)
    \/ DeleteSdc
    \/ RestoreDeletedItem

SpecRecycle == InitWorkflow /\ [][NextRecycle]_vars

---------------------------------------------------------------------------
(* Two requests in flight. Each coroutine runs one call; a step is the     *)
(* code between two awaited database calls, and the event loop may switch  *)
(* to the other coroutine at every await.                                  *)

\* lock_resource up to the return of check_resource_availability
LockCheck(p) ==
    \E resource_type \in ResourceTypes, resource_id \in ResourceIds, sdc_id \in SdcIds,
       work_order_id \in WorkOrderRefs :
        LET availability == check_resource_availability(db, resource_type, resource_id,
                                                        NoDate, NoDate, None)
            args == [resource_type |-> resource_type, resource_id |-> resource_id,
                     sdc_id |-> sdc_id, work_order_id |-> work_order_id]
        IN  /\ req[p].pc = "idle"
            /\ req' = [req EXCEPT ![p] =
                    IF availability.is_available
                    THEN [pc |-> "lock_update", op |-> "lock_resource", args |-> args]
                    ELSE [pc |-> "done", op |-> "lock_resource", args |-> args,
                          ret |-> [success |-> FALSE] @@ availability]]
            /\ UNCHANGED db

\* the update_one of the resource document
LockUpdate(p) ==
    /\ req[p].pc = "lock_update"
    /\ db' = lock_update(db, req[p].args.resource_type, req[p].args.resource_id,
                         req[p].args.sdc_id, req[p].args.work_order_id)
    /\ req' = [req EXCEPT ![p].pc = "lock_booking"]

\* the insert_one of the booking and the return
LockBooking(p) ==
    /\ req[p].pc = "lock_booking"
    /\ db' = lock_booking(db, req[p].args.resource_type, req[p].args.resource_id,
                          req[p].args.sdc_id, req[p].args.work_order_id, NoDate, NoDate)
    /\ req' = [req EXCEPT ![p] =
            [pc |-> "done", op |-> "lock_resource", args |-> req[p].args,
             ret |-> [success       |-> TRUE,
                      booking_id    |-> NewBookingId(db),
                      resource_type |-> req[p].args.resource_type,
                      resource_id   |-> req[p].args.resource_id,
                      sdc_id        |-> req[p].args.sdc_id]]]

NextLockRace ==
    \E p \in Procs : LockCheck(p) \/ LockUpdate(p) \/ LockBooking(p)

SpecLockRace == Init /\ [][NextLockRace]_vars

\* open-center requests that name no resource and ask for at least one student
RaceRequests ==
    {sdc_data \in AllocationRequests :
        /\ sdc_data.trainer_id = None
        /\ sdc_data.district_name = "Pune"
        /\ sdc_data.target_students \in 1..MaxTarget}

\* the resources a request names, in the order the handler checks and locks them
named_resources(sdc_data) ==
    SelectSeq(<< <<"infrastructure", sdc_data.infra_id>>,
                 <<"manager", sdc_data.manager_id>>,
                 <<"trainer", sdc_data.trainer_id>> >>,
              LAMBDA resource : Truthy(resource[2]))

\* create_sdc_from_master up to the return of validate_allocation; a request
\* that names no resource makes no availability check
OpenValidate(p, requests) ==
    \E master_wo_id \in MasterWoIds, sdc_data \in requests :
        LET allocation_result == validate_allocation(db, master_wo_id, sdc_data.job_role_id,
                                                     sdc_data.target_students, None)
            args == [master_wo_id |-> master_wo_id, sdc_data |-> sdc_data]
        IN  /\ req[p].pc = "idle"
            /\ req' = [req EXCEPT ![p] =
                    IF allocation_result.is_valid
                    THEN [pc |-> IF named_resources(sdc_data) # <<>>
                                 THEN "open_checks" ELSE "open_sdc_find",
                          op |-> "create_sdc_from_master",
                          args |-> args, allocation_result |-> allocation_result]
                    ELSE [pc |-> "done", op |-> "create_sdc_from_master", args |-> args,
                          ret |-> [status_code |-> 400,
                                   error       |-> "Over-allocation prevented",
                                   message     |-> allocation_result.error,
                                   remaining   |-> allocation_result.remaining,
                                   requested   |-> sdc_data.target_students]]]
            /\ UNCHANGED db

\* the find_one of the center
OpenSdcFind(p) ==
    /\ req[p].pc = "open_sdc_find"
    /\ req' = [req EXCEPT ![p] =
            [pc |-> "open_sdc_write", existing_sdc |-> open_sdc_find(db, req[p].args.sdc_data)]
            @@ req[p]]
    /\ UNCHANGED db

\* the update_one or insert_one of the center
OpenSdcWrite(p) ==
    /\ req[p].pc = "open_sdc_write"
    /\ db' = open_sdc_write(db, req[p].args.master_wo_id, req[p].args.sdc_data,
                            req[p].existing_sdc)
    /\ req' = [req EXCEPT ![p].pc = IF named_resources(req[p].args.sdc_data) # <<>>
                                    THEN "open_lock" ELSE "open_work_order"]

\* the insert_one of the batch
OpenWorkOrder(p) ==
    /\ req[p].pc = "open_work_order"
    /\ db' = open_work_order(db, req[p].args.master_wo_id, req[p].args.sdc_data)
    /\ req' = [req EXCEPT ![p] =
            [pc |-> "open_roadmap", work_order_id |-> NewWorkOrderId(db)] @@ req[p]]

\* the insert_many of the roadmap stages
OpenRoadmap(p) ==
    /\ req[p].pc = "open_roadmap"
    /\ db' = create_training_roadmap(db, req[p].work_order_id,
                 SdcIdOf(req[p].args.sdc_data.district_name, req[p].args.sdc_data.sdc_suffix),
                 req[p].args.sdc_data.target_students)
    /\ req' = [req EXCEPT ![p].pc = "open_record"]

\* record_allocation and the response; the update of the district list of the
\* contract that follows writes the list the handler read, which is empty when
\* requests race
OpenRecord(p) ==
    /\ req[p].pc = "open_record"
    /\ db' = open_record(db, req[p].args.master_wo_id, req[p].args.sdc_data,
                         req[p].work_order_id)
    /\ req' = [req EXCEPT ![p] =
            [pc |-> "done", op |-> "create_sdc_from_master", args |-> req[p].args,
             ret |-> [status_code   |-> 200,
                      work_order_id |-> req[p].work_order_id,
                      allocation    |->
                          [allocated       |-> req[p].args.sdc_data.target_students,
                           remaining_after |-> req[p].allocation_result.remaining_after]]]]

NextOpenRace ==
    \E p \in Procs :
        \/ OpenValidate(p, RaceRequests)
        \/ OpenSdcFind(p)
        \/ OpenSdcWrite(p)
        \/ OpenWorkOrder(p)
        \/ OpenRoadmap(p)
        \/ OpenRecord(p)

InitOpenRace ==
    /\ \E t1 \in 1..MaxTarget : db = InitDb(t1, 1)
    /\ req = [p \in Procs |-> Idle]

SpecOpenRace == InitOpenRace /\ [][NextOpenRace]_vars

\* two open-center requests in flight while centers are deleted and items
\* restored; a delete or a restore is served between two steps of the requests
NextOpenRaceRecycle ==
    \/ NextOpenRace
    \/ DeleteSdc
    \/ RestoreDeletedItem

SpecOpenRaceRecycle == InitOpenRace /\ [][NextOpenRaceRecycle]_vars

\* open-center requests for one student of jr_1 that name the trainer; with
\* one resource named, the availability checks of the handler are one await
TrainerRequests ==
    {sdc_data \in ResourceRequests :
        /\ sdc_data.infra_id = None
        /\ sdc_data.manager_id = None
        /\ sdc_data.trainer_id # None}

\* the availability checks of the handler
OpenChecks(p) ==
    LET checks == open_checks(db, req[p].args.sdc_data)
    IN  /\ req[p].pc = "open_checks"
        /\ req' = [req EXCEPT ![p] =
                IF checks.status_code # 200
                THEN [pc |-> "done", op |-> "create_sdc_from_master", args |-> req[p].args,
                      ret |-> checks]
                ELSE [pc |-> "open_sdc_find",
                      to_lock |-> named_resources(req[p].args.sdc_data),
                      lock_results |-> <<>>] @@ req[p]]
        /\ UNCHANGED db

\* the availability check of the next lock_resource call of the handler; the
\* handler goes on whatever the call returns
OpenLockCheck(p) ==
    LET resource == Head(req[p].to_lock)
        availability == check_resource_availability(db, resource[1], resource[2],
                                                    NoDate, NoDate, None)
    IN  /\ req[p].pc = "open_lock"
        /\ req' = [req EXCEPT ![p] =
                IF availability.is_available
                THEN [pc |-> "open_lock_update"] @@ req[p]
                ELSE [pc |-> IF Tail(req[p].to_lock) # <<>>
                             THEN "open_lock" ELSE "open_work_order",
                      to_lock |-> Tail(req[p].to_lock),
                      lock_results |-> Append(req[p].lock_results, FALSE)] @@ req[p]]
        /\ UNCHANGED db

\* the update_one of that lock_resource call
OpenLockUpdate(p) ==
    LET resource == Head(req[p].to_lock)
    IN  /\ req[p].pc = "open_lock_update"
        /\ db' = lock_update(db, resource[1], resource[2],
                             SdcIdOf(req[p].args.sdc_data.district_name,
                                     req[p].args.sdc_data.sdc_suffix),
                             req[p].args.master_wo_id)
        /\ req' = [req EXCEPT ![p].pc = "open_lock_booking"]

\* the insert_one of the booking of that lock_resource call
OpenLockBooking(p) ==
    LET resource == Head(req[p].to_lock)
    IN  /\ req[p].pc = "open_lock_booking"
        /\ db' = lock_booking(db, resource[1], resource[2],
                              SdcIdOf(req[p].args.sdc_data.district_name,
                                      req[p].args.sdc_data.sdc_suffix),
                              req[p].args.master_wo_id, NoDate, NoDate)
        /\ req' = [req EXCEPT ![p] =
                [pc |-> IF Tail(req[p].to_lock) # <<>>
                        THEN "open_lock" ELSE "open_work_order",
                 to_lock |-> Tail(req[p].to_lock),
                 lock_results |-> Append(req[p].lock_results, TRUE)] @@ req[p]]

\* an open-center request that names the trainer, in flight with another one
\* or with a lock_resource call
NextOpenLockRace ==
    \E p \in Procs :
        \/ OpenValidate(p, TrainerRequests)
        \/ OpenChecks(p)
        \/ OpenSdcFind(p)
        \/ OpenSdcWrite(p)
        \/ OpenLockCheck(p)
        \/ OpenLockUpdate(p)
        \/ OpenLockBooking(p)
        \/ OpenWorkOrder(p)
        \/ OpenRoadmap(p)
        \/ OpenRecord(p)
        \/ LockCheck(p)
        \/ LockUpdate(p)
        \/ LockBooking(p)

SpecOpenLockRace == InitWorkflow /\ [][NextOpenLockRace]_vars

---------------------------------------------------------------------------
(* Reading the database *)

\* sum of num_students over the non-deleted batches of a contract's job role
Allocated(d, master_wo_id, job_role_id) ==
    SumSeq([i \in 1..Len(d.work_orders) |->
        IF /\ d.work_orders[i].master_wo_id = master_wo_id
           /\ d.work_orders[i].job_role_id = job_role_id
           /\ ~IsDeleted(d.work_orders[i])
        THEN d.work_orders[i].num_students ELSE 0])

\* the (contract, job role, target) triples of the database
Quotas(d) ==
    UNION { { <<d.master_work_orders[i].master_wo_id,
                d.master_work_orders[i].job_roles[j].job_role_id,
                d.master_work_orders[i].job_roles[j].target>> :
              j \in 1..Len(d.master_work_orders[i].job_roles) } :
            i \in 1..Len(d.master_work_orders) }

\* the (kind, id, document) triples of the resources of the database
Resources(d) ==
    UNION { { <<t, d[collection_map[t][1]][i][collection_map[t][2]], d[collection_map[t][1]][i]>> :
              i \in 1..Len(d[collection_map[t][1]]) } :
            t \in ResourceTypes }

ActiveBookings(d, resource_type, resource_id) ==
    {i \in 1..Len(d.resource_bookings) :
        /\ d.resource_bookings[i].resource_type = resource_type
        /\ d.resource_bookings[i].resource_id = resource_id
        /\ d.resource_bookings[i].status = "active"}

\* the ids of the centers that belong to a contract
SdcsOf(d, master_wo_id) ==
    {c.sdc_id : c \in {c \in Docs(d.sdcs) : c.master_wo_id = master_wo_id}}

\* the open-center request of coroutine p has inserted its batch
Committed(p) ==
    req[p].pc \in {"open_roadmap", "open_record"}
        \/ (req[p].pc = "done" /\ req[p].ret.status_code = 200)

---------------------------------------------------------------------------
(* C1: after any sequence of open-center requests served one after the     *)
(* other, the students of the non-deleted batches of a job role of a       *)
(* contract never sum to more than the target of that job role.            *)

C1_NoOverAllocation ==
    \A q \in Quotas(db) : Allocated(db, q[1], q[2]) <= q[3]

\* a job role with a positive target is used up by two batches
C1_Witness ==
    \E q \in Quotas(db) :
        /\ q[3] > 0
        /\ Allocated(db, q[1], q[2]) = q[3]
        /\ Cardinality({i \in 1..Len(db.work_orders) :
                /\ db.work_orders[i].master_wo_id = q[1]
                /\ db.work_orders[i].job_role_id = q[2]}) >= 2

---------------------------------------------------------------------------
(* C7: for every job role of a contract with remaining = target -          *)
(* allocated >= 0, validate_allocation accepts a request for exactly the   *)
(* remaining students and reports remaining_after = 0, and rejects a       *)
(* request for one student more with the Over-allocation error that        *)
(* carries the remaining and the requested count.                          *)

C7_BoundaryRequests ==
    \A q \in Quotas(db) :
        LET remaining == q[3] - Allocated(db, q[1], q[2])
            exact == validate_allocation(db, q[1], q[2], remaining, None)
            over == validate_allocation(db, q[1], q[2], remaining + 1, None)
        IN  remaining >= 0 =>
                /\ exact.is_valid
                /\ exact.remaining_after = 0
                /\ ~over.is_valid
                /\ over.error = "Over-allocation"
                /\ over.remaining = remaining
                /\ over.requested = remaining + 1

\* a job role that is partly allocated: some students are placed, some remain
C7_Witness ==
    \E q \in Quotas(db) :
        /\ Allocated(db, q[1], q[2]) > 0
        /\ Allocated(db, q[1], q[2]) < q[3]
        /\ validate_allocation(db, q[1], q[2], q[3] - Allocated(db, q[1], q[2]), None).is_valid

---------------------------------------------------------------------------
(* C2: when two open-center requests run concurrently, under every         *)
(* interleaving of their steps the students of the batches of a job role   *)
(* of a contract never sum to more than its target, and of two requests    *)
(* for the same job role that each fit the target alone but not together   *)
(* at most one inserts a batch.                                            *)

C2_ConcurrentNoOverAllocation ==
    /\ \A q \in Quotas(db) : Allocated(db, q[1], q[2]) <= q[3]
    /\ \A p1 \in Procs, p2 \in Procs, q \in Quotas(db) :
           (/\ p1 # p2
            /\ Committed(p1) /\ Committed(p2)
            /\ req[p1].args.master_wo_id = q[1] /\ req[p2].args.master_wo_id = q[1]
            /\ req[p1].args.sdc_data.job_role_id = q[2]
            /\ req[p2].args.sdc_data.job_role_id = q[2])
           => req[p1].args.sdc_data.target_students
                  + req[p2].args.sdc_data.target_students <= q[3]

---------------------------------------------------------------------------
(* C3: when two lock_resource calls for two different centers run          *)
(* concurrently on the same available resource, under every interleaving   *)
(* of their steps, once both have returned exactly one has returned        *)
(* success and the resource is assigned to the center of that call.        *)

C3_ExactlyOneLockWins ==
    \A p1 \in Procs, p2 \in Procs :
        (/\ p1 # p2
         /\ req[p1].pc = "done" /\ req[p2].pc = "done"
         /\ req[p1].args.resource_type = req[p2].args.resource_type
         /\ req[p1].args.resource_id = req[p2].args.resource_id
         /\ req[p1].args.sdc_id # req[p2].args.sdc_id
         /\ req[p1].ret.success)
        => /\ ~req[p2].ret.success
           /\ \E r \in Resources(db) :
                  /\ r[1] = req[p1].args.resource_type
                  /\ r[2] = req[p1].args.resource_id
                  /\ r[3].status = "assigned"
                  /\ r[3].assigned_sdc_id = req[p1].args.sdc_id

---------------------------------------------------------------------------
(* C4: in every state reached by lock_resource, release_resource, the      *)
(* per-kind assign and release endpoints and complete_master_work_order,   *)
(* every resource has status assigned if and only if its assigned_sdc_id   *)
(* is not null.                                                            *)

C4_AssignedIffSdc ==
    \A r \in Resources(db) :
        (r[3].status = "assigned") <=> (Get(r[3], "assigned_sdc_id") # None)

---------------------------------------------------------------------------
(* C5: for every available resource T and two distinct centers c1 and c2:  *)
(* lock_resource(T, c1) succeeds; a following lock_resource(T, c2) fails   *)
(* with a conflict that names c1 as the holder and changes nothing; after  *)
(* release_resource(T), lock_resource(T, c2) succeeds and T is assigned    *)
(* to c2.                                                                  *)

C5_LockConflictReleaseLock ==
    \A r \in Resources(db), c1 \in SdcIds, c2 \in SdcIds, work_order_id \in WorkOrderRefs :
        LET first == lock_resource(db, r[1], r[2], c1, work_order_id, NoDate, NoDate)
            second == lock_resource(first.db, r[1], r[2], c2, work_order_id, NoDate, NoDate)
            released == release_resource(first.db, r[1], r[2])
            third == lock_resource(released.db, r[1], r[2], c2, work_order_id, NoDate, NoDate)
        IN  (r[3].status = "available" /\ c1 # c2) =>
                /\ first.ret.success
                /\ ~second.ret.success
                /\ second.ret.conflict.sdc_id = c1
                /\ second.db = first.db
                /\ released.ret.success
                /\ third.ret.success
                /\ \E t \in Resources(third.db) :
                       /\ t[1] = r[1] /\ t[2] = r[2]
                       /\ t[3].status = "assigned"
                       /\ t[3].assigned_sdc_id = c2

\* the scenario has run: a resource is assigned to one center, its booking for
\* another center is completed and its booking for the holder is active
C5_Witness ==
    \E r \in Resources(db), i, j \in 1..Len(db.resource_bookings) :
        /\ r[3].status = "assigned"
        /\ i < j
        /\ db.resource_bookings[i].resource_type = r[1]
        /\ db.resource_bookings[i].resource_id = r[2]
        /\ db.resource_bookings[i].status = "completed"
        /\ db.resource_bookings[i].sdc_id # r[3].assigned_sdc_id
        /\ db.resource_bookings[j].resource_type = r[1]
        /\ db.resource_bookings[j].resource_id = r[2]
        /\ db.resource_bookings[j].status = "active"
        /\ db.resource_bookings[j].sdc_id = r[3].assigned_sdc_id

---------------------------------------------------------------------------
(* C6: for every resource whose status is not available,                   *)
(* check_resource_availability reports not-available and lock_resource     *)
(* fails and changes nothing.                                              *)

C6_LockOnlyAvailable ==
    \A r \in Resources(db), sdc_id \in SdcIds, work_order_id \in WorkOrderRefs :
        r[3].status # "available" =>
            /\ ~check_resource_availability(db, r[1], r[2], NoDate, NoDate, None).is_available
            /\ ~lock_resource(db, r[1], r[2], sdc_id, work_order_id, NoDate, NoDate).ret.success
            /\ lock_resource(db, r[1], r[2], sdc_id, work_order_id, NoDate, NoDate).db = db

---------------------------------------------------------------------------
(* C8: for every existing resource, in every reachable state, two          *)
(* release_resource calls in a row both return success, the database after *)
(* the second call equals the database after the first, and the resource   *)
(* is available with no center and no batch reference.                     *)

C8_ReleaseIdempotent ==
    \A r \in Resources(db) :
        LET first == release_resource(db, r[1], r[2])
            second == release_resource(first.db, r[1], r[2])
        IN  /\ first.ret.success
            /\ second.ret.success
            /\ second.db = first.db
            /\ \A t \in Resources(second.db) :
                   (t[1] = r[1] /\ t[2] = r[2]) =>
                       /\ t[3].status = "available"
                       /\ t[3].assigned_sdc_id = None
                       /\ t[3].assigned_work_order_id = None

\* a release has acted: a resource is available, has a completed booking and
\* no active one, so the next release of it is the repeated call
C8_Witness ==
    \E r \in Resources(db) :
        /\ r[3].status = "available"
        /\ ActiveBookings(db, r[1], r[2]) = {}
        /\ \E i \in 1..Len(db.resource_bookings) :
               /\ db.resource_bookings[i].resource_type = r[1]
               /\ db.resource_bookings[i].resource_id = r[2]
               /\ db.resource_bookings[i].status = "completed"
        /\ release_resource(db, r[1], r[2]).db = db

---------------------------------------------------------------------------
(* C9: release_resource(kind, id) sets the resource of that kind and id to *)
(* available with null center and batch references, marks exactly the      *)
(* active bookings of that (kind, id) completed, and leaves every other    *)
(* resource, every other booking and every other collection unchanged.     *)

C9_ReleaseFrame ==
    \A resource_type \in ResourceTypes, resource_id \in ResourceIds :
        LET after == release_resource(db, resource_type, resource_id).db
            released(doc) == [status |-> "available", assigned_sdc_id |-> None,
                              assigned_work_order_id |-> None] @@ doc
        IN  /\ \A t \in ResourceTypes :
                   LET before_docs == db[collection_map[t][1]]
                       after_docs == after[collection_map[t][1]]
                   IN  /\ Len(after_docs) = Len(before_docs)
                       /\ \A i \in 1..Len(before_docs) :
                              after_docs[i] =
                                  IF t = resource_type
                                     /\ before_docs[i][collection_map[t][2]] = resource_id
                                  THEN released(before_docs[i])
                                  ELSE before_docs[i]
            /\ Len(after.resource_bookings) = Len(db.resource_bookings)
            /\ \A i \in 1..Len(db.resource_bookings) :
                   after.resource_bookings[i] =
                       IF /\ db.resource_bookings[i].resource_type = resource_type
                          /\ db.resource_bookings[i].resource_id = resource_id
                          /\ db.resource_bookings[i].status = "active"
                       THEN [db.resource_bookings[i] EXCEPT !.status = "completed"]
                       ELSE db.resource_bookings[i]
            /\ \A c \in {"master_work_orders", "sdcs", "work_orders", "training_roadmaps",
                         "sdc_processes", "target_ledger"} : after[c] = db[c]

---------------------------------------------------------------------------
(* C10: in every state reached by lock_resource, release_resource and      *)
(* complete_master_work_order calls that have all returned, a resource     *)
(* has status assigned if and only if exactly one active booking exists    *)
(* for it, that booking's sdc_id is the resource's assigned_sdc_id, and an *)
(* available resource has no active booking.                               *)

C10_AssignedIffOneActiveBooking ==
    \A r \in Resources(db) :
        LET active == ActiveBookings(db, r[1], r[2])
        IN  /\ (r[3].status = "assigned") <=> (Cardinality(active) = 1)
            /\ \A i \in active : db.resource_bookings[i].sdc_id = Get(r[3], "assigned_sdc_id")
            /\ r[3].status = "available" => active = {}

---------------------------------------------------------------------------
(* C11: when complete_master_work_order succeeds on a contract, the        *)
(* contract and all its batches have status completed, and every trainer,  *)
(* manager and infrastructure that the open-center workflow had locked to  *)
(* a center of that contract is available with null assignment references. *)

C11_CompleteReleasesResources ==
    \A m \in Docs(db.master_work_orders) :
        LET done == complete_master_work_order(db, m.master_wo_id)
        IN  m.status # "completed" =>
                /\ done.ret.status_code = 200
                /\ \A a \in Docs(done.db.master_work_orders) :
                       a.master_wo_id = m.master_wo_id => a.status = "completed"
                /\ \A wo \in Docs(done.db.work_orders) :
                       wo.master_wo_id = m.master_wo_id => wo.status = "completed"
                /\ \A r \in Resources(db) :
                       (/\ r[3].status = "assigned"
                        /\ Get(r[3], "assigned_sdc_id") \in SdcsOf(db, m.master_wo_id))
                       => \E t \in Resources(done.db) :
                              /\ t[1] = r[1] /\ t[2] = r[2]
                              /\ t[3].status = "available"
                              /\ Get(t[3], "assigned_sdc_id") = None
                              /\ Get(t[3], "assigned_work_order_id") = None

---------------------------------------------------------------------------
(* C12: for every resource that is not currently assigned and every        *)
(* well-formed date range [s, e], check_resource_availability reports a    *)
(* booking conflict if and only if some active booking of that resource    *)
(* has an interval [bs, be] with bs <= e and s <= be; completed bookings,  *)
(* bookings without dates and bookings of other resources never conflict.  *)

C12_ConflictIffIntersects ==
    \A r \in Resources(db), dates \in DatedRanges :
        LET availability == check_resource_availability(db, r[1], r[2], dates[1], dates[2], None)
            intersecting ==
                {b \in Docs(db.resource_bookings) :
                    /\ b.resource_type = r[1]
                    /\ b.resource_id = r[2]
                    /\ b.status = "active"
                    /\ b.start_date # NoDate /\ b.end_date # NoDate
                    /\ b.start_date <= dates[2] /\ dates[1] <= b.end_date}
        IN  r[3].status # "assigned" =>
                /\ availability.is_available <=> intersecting = {}
                /\ ~availability.is_available =>
                       /\ availability.error = "has conflicting bookings during this period"
                       /\ Docs(availability.conflicts) = intersecting

\* a resource that is not assigned keeps an active dated booking: one range
\* conflicts with it, another does not, and a completed booking of the
\* resource and a booking of another resource are in the log
C12_Witness ==
    \E r \in Resources(db), hit \in DatedRanges, miss \in DatedRanges :
        /\ r[3].status # "assigned"
        /\ ~check_resource_availability(db, r[1], r[2], hit[1], hit[2], None).is_available
        /\ check_resource_availability(db, r[1], r[2], miss[1], miss[2], None).is_available
        /\ \E b \in Docs(db.resource_bookings) :
               b.resource_id # r[2] /\ b.status = "active" /\ b.start_date # NoDate

---------------------------------------------------------------------------
(* C13: for every contract and job role, get_target_ledger reports         *)
(* allocated = the sum of num_students over the non-deleted batches of     *)
(* that contract and job role, remaining = max(0, target - allocated) and  *)
(* is_fully_allocated exactly when remaining = 0; a job role with target 0 *)
(* is fully allocated with remaining 0; total_allocated and                *)
(* total_remaining are the sums of the per-role values.                    *)

C13_LedgerValues ==
    \A m \in Docs(db.master_work_orders) :
        LET ledger == get_target_ledger(db, m.master_wo_id)
        IN  /\ Len(ledger.job_roles) = Len(m.job_roles)
            /\ \A i \in 1..Len(m.job_roles) :
                   LET jr == ledger.job_roles[i]
                       allocated == Allocated(db, m.master_wo_id, m.job_roles[i].job_role_id)
                   IN  /\ jr.job_role_id = m.job_roles[i].job_role_id
                       /\ jr.allocated = allocated
                       /\ jr.remaining = Max(0, m.job_roles[i].target - allocated)
                       /\ jr.is_fully_allocated <=> jr.remaining = 0
                       /\ m.job_roles[i].target = 0 =>
                              jr.is_fully_allocated /\ jr.remaining = 0
            /\ ledger.total_allocated =
                   SumSeq([i \in 1..Len(m.job_roles) |->
                       Allocated(db, m.master_wo_id, m.job_roles[i].job_role_id)])
            /\ ledger.total_remaining =
                   SumSeq([i \in 1..Len(m.job_roles) |->
                       Max(0, m.job_roles[i].target
                                - Allocated(db, m.master_wo_id, m.job_roles[i].job_role_id))])

---------------------------------------------------------------------------
(* C14: for every contract and job role and every requested count, the     *)
(* remaining that validate_allocation returns without exclude_wo_id is the *)
(* remaining that get_target_ledger reports for that job role, and it is   *)
(* never negative, also when the batches of the job role sum to more than  *)
(* its target.                                                             *)

C14_ValidateRemainingIsLedgerRemaining ==
    \A m \in Docs(db.master_work_orders), requested_students \in RequestedStudents :
        \A jr \in Docs(get_target_ledger(db, m.master_wo_id).job_roles) :
            LET result == validate_allocation(db, m.master_wo_id, jr.job_role_id,
                                              requested_students, None)
            IN  /\ result.remaining = jr.remaining
                /\ result.remaining >= 0

---------------------------------------------------------------------------
(* C15: validate_allocation with exclude_wo_id = B accepts a request if    *)
(* and only if requested <= target - (sum of num_students of the           *)
(* non-deleted batches of that contract and job role other than B); a B    *)
(* of another contract is not in that sum and does not enlarge what is     *)
(* accepted.                                                               *)

C15_ExcludeOwnBatchOnly ==
    \A q \in Quotas(db), B \in Docs(db.work_orders), requested_students \in RequestedStudents :
        LET others == SumSeq([i \in 1..Len(db.work_orders) |->
                          IF /\ db.work_orders[i].master_wo_id = q[1]
                             /\ db.work_orders[i].job_role_id = q[2]
                             /\ ~IsDeleted(db.work_orders[i])
                             /\ db.work_orders[i].work_order_id # B.work_order_id
                          THEN db.work_orders[i].num_students ELSE 0])
        IN  validate_allocation(db, q[1], q[2], requested_students, B.work_order_id).is_valid
                <=> requested_students <= q[3] - others

---------------------------------------------------------------------------
(* C16: every batch created by the open-center workflow has num_students   *)
(* >= 0: create_sdc_from_master rejects a negative target_students with    *)
(* the 400 response and creates no batch for it.                           *)

C16_NoNegativeBatch ==
    /\ \A wo \in Docs(db.work_orders) : wo.num_students >= 0
    /\ \A master_wo_id \in MasterWoIds, sdc_data \in AllocationRequests :
           sdc_data.target_students < 0 =>
               LET result == create_sdc_from_master(db, master_wo_id, sdc_data)
               IN  result.ret.status_code = 400 /\ result.db.work_orders = db.work_orders

---------------------------------------------------------------------------
(* C17: if validate_allocation rejects the request, create_sdc_from_master *)
(* returns 400, and if it accepts but check_resource_availability fails    *)
(* for a named infrastructure, manager or trainer, it returns 409; in both *)
(* cases every collection is left as it was.                               *)

C17_FailedOpenChangesNothing ==
    \A master_wo_id \in MasterWoIds, sdc_data \in ProbeRequests :
        LET result == create_sdc_from_master(db, master_wo_id, sdc_data)
            allocation_result == validate_allocation(db, master_wo_id, sdc_data.job_role_id,
                                                     sdc_data.target_students, None)
            unavailable ==
                {t \in ResourceTypes :
                    LET resource_id == sdc_data[collection_map[t][2]]
                    IN  /\ Truthy(resource_id)
                        /\ ~check_resource_availability(db, t, resource_id,
                                                        NoDate, NoDate, None).is_available}
        IN  /\ ~allocation_result.is_valid =>
                   result.ret.status_code = 400 /\ result.db = db
            /\ (allocation_result.is_valid /\ unavailable # {}) =>
                   result.ret.status_code = 409 /\ result.db = db
            /\ result.ret.status_code # 200 => result.db = db

\* a state in which one request is refused for over-allocation and another,
\* within the quota, is refused for a resource that a center holds
C17_Witness ==
    /\ \E r \in Resources(db) : r[3].status = "assigned"
    /\ \E master_wo_id \in MasterWoIds, sdc_data \in ProbeRequests :
           create_sdc_from_master(db, master_wo_id, sdc_data).ret.status_code = 400
    /\ \E master_wo_id \in MasterWoIds, sdc_data \in ProbeRequests :
           create_sdc_from_master(db, master_wo_id, sdc_data).ret.status_code = 409

---------------------------------------------------------------------------
(* C18: when create_sdc_from_master returns success, every resource named  *)
(* in the request is in status assigned with assigned_sdc_id equal to the  *)
(* new center, also with another open-center or lock call in flight; and a *)
(* request one of whose lock_resource calls failed inserts no batch.       *)

C18_SuccessMeansLocked ==
    [][\A p \in Procs :
          /\ (req[p].pc = "open_record" /\ req'[p].pc = "done") =>
                 \A i \in 1..Len(named_resources(req[p].args.sdc_data)) :
                     \E r \in Resources(db') :
                         /\ r[1] = named_resources(req[p].args.sdc_data)[i][1]
                         /\ r[2] = named_resources(req[p].args.sdc_data)[i][2]
                         /\ r[3].status = "assigned"
                         /\ r[3].assigned_sdc_id =
                                SdcIdOf(req[p].args.sdc_data.district_name,
                                        req[p].args.sdc_data.sdc_suffix)
          /\ (req[p].pc = "open_work_order" /\ req'[p].pc = "open_roadmap") =>
                 \A i \in 1..Len(req[p].lock_results) : req[p].lock_results[i]
      ]_vars

---------------------------------------------------------------------------
(* C19: for a contract with target T, allocated A and stage totals M, Tr,  *)
(* O, As, P, get_burndown_data reports unallocated = max(0, T - A),        *)
(* allocated_not_started = max(0, A - M), awaiting_training = max(0, M -   *)
(* Tr), in_training = max(0, Tr - O), in_ojt = max(0, O - As) and          *)
(* awaiting_placement = max(0, As - P), and every pipeline value is >= 0,  *)
(* also when a later stage counts more than an earlier one.                *)

C19_BurndownPipeline ==
    \A m \in Docs(db.master_work_orders) :
        LET burndown == get_burndown_data(db, m.master_wo_id)
            work_orders == find(db.work_orders,
                               {wo \in Docs(db.work_orders) : wo.master_wo_id = m.master_wo_id})
            clamp(x) == IF x > 0 THEN x ELSE 0
            T == m.total_training_target
            A == SumSeq([i \in 1..Len(m.job_roles) |->
                         Allocated(db, m.master_wo_id, m.job_roles[i].job_role_id)])
            M == burndown.pipeline.mobilized
            Tr == stage_total(db, work_orders, "training", "classroom_training")
            O == stage_total(db, work_orders, "ojt", "ojt")
            As == stage_total(db, work_orders, "assessment", "assessment")
            P == burndown.pipeline.placed
        IN  /\ burndown.summary.total_allocated = A
            /\ burndown.pipeline.unallocated = clamp(T - A)
            /\ burndown.pipeline.allocated_not_started = clamp(A - M)
            /\ burndown.pipeline.awaiting_training = clamp(M - Tr)
            /\ burndown.pipeline.in_training = clamp(Tr - O)
            /\ burndown.pipeline.in_ojt = clamp(O - As)
            /\ burndown.pipeline.awaiting_placement = clamp(As - P)
            /\ \A f \in DOMAIN burndown.pipeline : burndown.pipeline[f] >= 0

\* stage totals that are inconsistent: more in training than mobilized and more
\* in on-the-job training than in training, with students left unallocated
C19_Witness ==
    \E m \in Docs(db.master_work_orders) :
        LET burndown == get_burndown_data(db, m.master_wo_id)
            work_orders == find(db.work_orders,
                               {wo \in Docs(db.work_orders) : wo.master_wo_id = m.master_wo_id})
        IN  /\ burndown.pipeline.unallocated > 0
            /\ burndown.summary.total_allocated > 0
            /\ stage_total(db, work_orders, "training", "classroom_training")
                   > burndown.pipeline.mobilized
            /\ stage_total(db, work_orders, "ojt", "ojt")
                   > stage_total(db, work_orders, "training", "classroom_training")
            /\ burndown.pipeline.awaiting_training = 0
            /\ burndown.pipeline.in_ojt > 0

---------------------------------------------------------------------------
(* C20: complete_master_work_order on a contract whose status is already   *)
(* completed returns the 'already completed' message and writes nothing:   *)
(* every collection is as it was.                                          *)

C20_CompleteAgainChangesNothing ==
    \A m \in Docs(db.master_work_orders) :
        LET again == complete_master_work_order(db, m.master_wo_id)
        IN  m.status = "completed" =>
                /\ again.ret.status_code = 200
                /\ again.ret.message = "Work Order is already completed"
                /\ again.db = db

\* a contract is completed and a trainer or manager has since been locked to
\* one of its centers, so that running the writes again would release it
C20_Witness ==
    \E m \in Docs(db.master_work_orders), r \in Resources(db) :
        /\ m.status = "completed"
        /\ r[1] \in {"trainer", "manager"}
        /\ r[3].status = "assigned"
        /\ r[3].assigned_sdc_id \in SdcsOf(db, m.master_wo_id)

---------------------------------------------------------------------------
(* C21: get_target_ledger, validate_allocation,                            *)
(* check_resource_availability, get_resource_booking_history and           *)
(* get_burndown_data are read-only: for every input, the ones that fail    *)
(* included, every collection after the call is as it was before it.       *)

C21_ReadsChangeNothing ==
    /\ \A master_wo_id \in MasterWoIds \cup UnknownMasterWoIds :
           /\ get_target_ledger_endpoint(db, master_wo_id).db = db
           /\ get_single_burndown(db, master_wo_id).db = db
           /\ \A job_role_id \in JobRoles \cup UnknownJobRoles,
                 requested_students \in {0, MaxTarget + 1},
                 exclude_wo_id \in {None, "wo_1"} :
                  validate_allocation_endpoint(db, master_wo_id, job_role_id,
                                               requested_students, exclude_wo_id).db = db
    /\ \A resource_type \in ResourceTypes \cup UnknownResourceTypes,
          resource_id \in ResourceIds \cup UnknownResourceIds :
           /\ get_resource_history_endpoint(db, resource_type, resource_id).db = db
           /\ \A dates \in {<<NoDate, NoDate>>, <<1, MaxDate>>},
                 exclude_sdc_id \in {None, "sdc_pune"} :
                  check_resource_availability_endpoint(db, resource_type, resource_id,
                      dates[1], dates[2], exclude_sdc_id).db = db

\* the reads have something to report and something to refuse: a center with
\* a batch and no process document, a booking in the history of an assigned
\* resource, a request that validate_allocation rejects and one it accepts
C21_Witness ==
    /\ \E r \in Resources(db) :
           /\ r[3].status = "assigned"
           /\ get_resource_history_endpoint(db, r[1], r[2]).ret.body # <<>>
           /\ ~check_resource_availability_endpoint(db, r[1], r[2], NoDate, NoDate,
                                                     None).ret.body.is_available
    /\ \E m \in Docs(db.master_work_orders) :
           /\ get_single_burndown(db, m.master_wo_id).ret.body.summary.total_allocated > 0
           /\ SdcsOf(db, m.master_wo_id) # {}
           /\ db.sdc_processes = <<>>
           /\ validate_allocation_endpoint(db, m.master_wo_id, "jr_1", MaxTarget + 1,
                                            None).ret.status_code = 400
           /\ validate_allocation_endpoint(db, m.master_wo_id, "jr_1", 0,
                                            None).ret.status_code = 200
    /\ get_target_ledger_endpoint(db, "mwo_9").ret.status_code = 404

---------------------------------------------------------------------------
(* C22: check_resource_availability and lock_resource called with an       *)
(* unknown resource kind, or with an id of no resource of that kind,       *)
(* report failure ('Unknown resource type' or 'not found', lock success =  *)
(* false) and write no resource field and no booking; release_resource     *)
(* with an unknown kind returns success = false and changes nothing.       *)

C22_UnknownResourceRefused ==
    \A resource_type \in ResourceTypes \cup UnknownResourceTypes,
       resource_id \in ResourceIds \cup UnknownResourceIds,
       sdc_id \in SdcIds, dates \in {<<NoDate, NoDate>>, <<1, MaxDate>>} :
        LET unknown_kind == resource_type \notin {"trainer", "manager", "infrastructure"}
            missing == /\ ~unknown_kind
                       /\ \A r \in Resources(db) : ~(r[1] = resource_type /\ r[2] = resource_id)
            availability == check_resource_availability(db, resource_type, resource_id,
                                                        dates[1], dates[2], None)
            locked == lock_resource(db, resource_type, resource_id, sdc_id, "mwo_1",
                                    dates[1], dates[2])
            released == release_resource(db, resource_type, resource_id)
        IN  /\ unknown_kind =>
                   /\ ~availability.is_available
                   /\ availability.error = "Unknown resource type"
                   /\ ~locked.ret.success
                   /\ locked.db = db
                   /\ ~released.ret.success
                   /\ released.db = db
            /\ missing =>
                   /\ ~availability.is_available
                   /\ availability.error = "not found"
                   /\ ~locked.ret.success
                   /\ locked.db = db

\* a trainer is assigned and has an active booking; its id names no manager,
\* and a lock and a release under an unknown kind with that id are refused
C22_Witness ==
    \E r \in Resources(db) :
        /\ r[1] = "trainer"
        /\ r[3].status = "assigned"
        /\ ActiveBookings(db, r[1], r[2]) # {}
        /\ check_resource_availability(db, "manager", r[2], NoDate, NoDate, None).error
               = "not found"
        /\ \A t \in UnknownResourceTypes :
               /\ ~lock_resource(db, t, r[2], "sdc_pune", "mwo_1", NoDate, NoDate).ret.success
               /\ ~release_resource(db, t, r[2]).ret.success

---------------------------------------------------------------------------
(* C23: the target of a job role of a contract is immutable: no step of    *)
(* update_master_work_order, add_sdc_district, create_sdc_from_master or   *)
(* complete_master_work_order changes the job roles of an existing         *)
(* contract or the target of any of them.                                  *)

C23_JobRoleTargetImmutable ==
    [][/\ Len(db'.master_work_orders) = Len(db.master_work_orders)
       /\ \A i \in 1..Len(db.master_work_orders) :
              /\ db'.master_work_orders[i].master_wo_id = db.master_work_orders[i].master_wo_id
              /\ Len(db'.master_work_orders[i].job_roles) = Len(db.master_work_orders[i].job_roles)
              /\ \A j \in 1..Len(db.master_work_orders[i].job_roles) :
                     /\ db'.master_work_orders[i].job_roles[j].job_role_id
                            = db.master_work_orders[i].job_roles[j].job_role_id
                     /\ db'.master_work_orders[i].job_roles[j].target
                            = db.master_work_orders[i].job_roles[j].target
      ]_vars

\* every one of the four operations has written to a contract: its total was
\* set to a value that is not the sum of its targets, a district was added
\* and a center entered in it, and the contract was completed
C23_Witness ==
    \E m \in Docs(db.master_work_orders) :
        /\ m.total_training_target
               # SumSeq([j \in 1..Len(m.job_roles) |-> m.job_roles[j].target])
        /\ m.sdc_districts # << >>
        /\ m.sdc_districts[1].sdcs_created # << >>
        /\ m.status = "completed"
        /\ \E wo \in Docs(db.work_orders) :
               wo.master_wo_id = m.master_wo_id /\ wo.status = "completed"

---------------------------------------------------------------------------
(* C24: a lock_resource call that fails because the resource is already    *)
(* assigned changes nothing: the resource keeps its status and its center  *)
(* and batch references, no booking is inserted, and the request is not    *)
(* queued: after a release that follows, the resource is available and no  *)
(* booking of it is active.                                                *)

C24_FailedLockChangesNothing ==
    \A r \in Resources(db), sdc_id \in SdcIds, work_order_id \in WorkOrderRefs :
        LET failed == lock_resource(db, r[1], r[2], sdc_id, work_order_id, NoDate, NoDate)
            released == release_resource(failed.db, r[1], r[2])
        IN  (~failed.ret.success /\ failed.ret.error = "is already assigned") =>
                /\ failed.db = db
                /\ failed.ret.conflict.sdc_id = Get(r[3], "assigned_sdc_id")
                /\ Len(released.db.resource_bookings) = Len(db.resource_bookings)
                /\ ActiveBookings(released.db, r[1], r[2]) = {}
                /\ \A t \in Resources(released.db) :
                       (t[1] = r[1] /\ t[2] = r[2]) =>
                           /\ t[3].status = "available"
                           /\ t[3].assigned_sdc_id = None

\* a resource is held by one center under an active booking and the lock
\* that another center asks for is refused
C24_Witness ==
    \E r \in Resources(db), sdc_id \in SdcIds :
        /\ r[3].status = "assigned"
        /\ r[3].assigned_sdc_id # sdc_id
        /\ Cardinality(ActiveBookings(db, r[1], r[2])) = 1
        /\ lock_resource(db, r[1], r[2], sdc_id, "mwo_1", NoDate, NoDate).ret.error
               = "is already assigned"

---------------------------------------------------------------------------
(* C25: for a resource that is assigned to a center C,                     *)
(* check_resource_availability returns is_available = true if and only if  *)
(* exclude_sdc_id is given and equals C; for every other exclude_sdc_id,   *)
(* and for none, it returns is_available = false with a conflict whose     *)
(* sdc_id is C.                                                            *)

C25_ExcludeHolderOnly ==
    \A r \in Resources(db), exclude_sdc_id \in {None, "sdc_other"} \cup SdcIds,
       dates \in {<<NoDate, NoDate>>, <<1, MaxDate>>} :
        LET C == Get(r[3], "assigned_sdc_id")
            availability == check_resource_availability(db, r[1], r[2], dates[1], dates[2],
                                                        exclude_sdc_id)
        IN  (r[3].status = "assigned" /\ C # None) =>
                /\ availability.is_available <=> (exclude_sdc_id # None /\ exclude_sdc_id = C)
                /\ ~availability.is_available =>
                       /\ availability.error = "is already assigned"
                       /\ availability.conflict.sdc_id = C

\* a resource is assigned to a center: the check that excludes that center
\* passes, the check that excludes another center and the check that
\* excludes none are refused
C25_Witness ==
    \E r \in Resources(db), other \in SdcIds :
        /\ r[3].status = "assigned"
        /\ r[3].assigned_sdc_id \in SdcIds \ {other}
        /\ check_resource_availability(db, r[1], r[2], NoDate, NoDate,
                                       r[3].assigned_sdc_id).is_available
        /\ ~check_resource_availability(db, r[1], r[2], NoDate, NoDate, other).is_available
        /\ ~check_resource_availability(db, r[1], r[2], NoDate, NoDate, None).is_available

---------------------------------------------------------------------------
(* C26: record_allocation is called only after validate_allocation         *)
(* accepted the request and the batch was inserted: in every reachable     *)
(* state, between the steps of concurrent requests too, every entry of the *)
(* target ledger references a batch document of the same contract, job     *)
(* role and center, and its allocated_students is the num_students of that *)
(* batch.                                                                  *)

C26_LedgerEntryHasBatch ==
    \A e \in Docs(db.target_ledger) :
        \E wo \in Docs(db.work_orders) :
            /\ wo.work_order_id = e.work_order_id
            /\ wo.master_wo_id = e.master_wo_id
            /\ wo.job_role_id = e.job_role_id
            /\ wo.sdc_id = e.sdc_id
            /\ wo.num_students = e.allocated_students

\* one request has recorded its batch, whose center was deleted since, and
\* the other has inserted its batch and not yet recorded it
C26_Witness ==
    /\ \E e \in Docs(db.target_ledger), wo \in Docs(db.work_orders) :
           wo.work_order_id = e.work_order_id /\ IsDeleted(wo)
    /\ \E p \in Procs :
           /\ req[p].pc = "open_record"
           /\ \A e \in Docs(db.target_ledger) : e.work_order_id # req[p].work_order_id

(* C27: for every contract, after any sequence of open-center and          *)
(* delete-center operations (restores of soft-deleted items included), the *)
(* total_allocated of get_burndown_data equals the total_allocated of       *)
(* get_target_ledger.                                                       *)
C27_BurndownAllocatedIsLedgerAllocated ==
    \A m \in MasterWoIds \cup UnknownMasterWoIds :
        LET burndown == get_burndown_data(db, m)
            ledger == get_target_ledger(db, m)
        IN  /\ (burndown = NoDoc) <=> (ledger = NoDoc)
            /\ burndown # NoDoc => burndown.summary.total_allocated = ledger.total_allocated

\* a contract with a soft-deleted batch and a counted one
C27_Witness ==
    \E m \in MasterWoIds :
        /\ get_burndown_data(db, m) # NoDoc
        /\ get_burndown_data(db, m).summary.total_allocated > 0
        /\ \E wo \in Docs(db.work_orders) : wo.master_wo_id = m /\ IsDeleted(wo)
        /\ \E wo \in Docs(db.work_orders) : wo.master_wo_id = m /\ ~IsDeleted(wo)

---------------------------------------------------------------------------
(* C28: after any sequence of successful update_process_stage calls on a    *)
(* center, the stored completed counts do not increase along the pipeline   *)
(* and are bounded by the target of the center: target_students >=          *)
(* mobilization >= training >= ojt >= assessment >= placement.              *)
C28_StagesMonotone ==
    \A pr \in Docs(db.sdc_processes) :
        \A sdc \in {c \in Docs(db.sdcs) : c.sdc_id = pr.sdc_id} :
            /\ sdc.target_students >= pr.stages["mobilization"]
            /\ \A i \in 1..(Len(PROCESS_STAGES) - 1) :
                   pr.stages[PROCESS_STAGES[i]] >= pr.stages[PROCESS_STAGES[i + 1]]

---------------------------------------------------------------------------
(* C29: for every job role of every contract, the sum of num_students over  *)
(* its non-deleted batches stays at or below its target when delete_sdc and *)
(* restore_deleted_item are interleaved with open-center operations.        *)
C29_QuotaPreservedByRestore ==
    \A m \in MasterWoIds :
        LET ledger == get_target_ledger(db, m)
        IN  \A jr \in Docs(ledger.job_roles) : jr.allocated <= jr.total_target

---------------------------------------------------------------------------
(* C30: when target >= allocated >= mobilized >= training >= ojt >=         *)
(* assessed >= placed >= 0, the buckets of get_burndown_data partition the  *)
(* target: unallocated + allocated_not_started + awaiting_training +        *)
(* in_training + in_ojt + awaiting_placement + placed = total_target.       *)
C30_BucketsPartitionTarget ==
    \A m \in Docs(db.master_work_orders) :
        LET burndown == get_burndown_data(db, m.master_wo_id)
            work_orders == burndown_work_orders(db, m.master_wo_id)
            pipeline == burndown.pipeline
            T == burndown.total_target
            A == burndown.summary.total_allocated
            M == burndown.summary.total_mobilized
            Tr == stage_total(db, work_orders, "training", "classroom_training")
            O == stage_total(db, work_orders, "ojt", "ojt")
            As == stage_total(db, work_orders, "assessment", "assessment")
            P == burndown.summary.total_placed
        IN  (T >= A /\ A >= M /\ M >= Tr /\ Tr >= O /\ O >= As /\ As >= P /\ P >= 0)
            => pipeline.unallocated + pipeline.allocated_not_started
                   + pipeline.awaiting_training + pipeline.in_training + pipeline.in_ojt
                   + pipeline.awaiting_placement + pipeline.placed = T

\* consistent totals with students unallocated, awaiting training and placed
C30_Witness ==
    \E m \in Docs(db.master_work_orders) :
        LET burndown == get_burndown_data(db, m.master_wo_id)
            work_orders == burndown_work_orders(db, m.master_wo_id)
            T == burndown.total_target
            A == burndown.summary.total_allocated
            M == burndown.summary.total_mobilized
            Tr == stage_total(db, work_orders, "training", "classroom_training")
            O == stage_total(db, work_orders, "ojt", "ojt")
            As == stage_total(db, work_orders, "assessment", "assessment")
            P == burndown.summary.total_placed
        IN  /\ T > A /\ A >= M /\ M > Tr /\ Tr >= O /\ O >= As /\ As >= P /\ P > 0
            /\ burndown.pipeline.unallocated > 0
            /\ burndown.pipeline.awaiting_training > 0
            /\ burndown.pipeline.placed > 0

====
